---- MODULE Spec2Model ----
(***************************************************************************)
(* A model of the Enova energy-certificate ETL pipeline.                   *)
(*                                                                         *)
(* Part I  : the CSV import and de-duplication service                     *)
(*           (src/src/services/csv_processor.py).                          *)
(* Part II : the detail API client (src/src/services/api_client.py).       *)
(*                                                                         *)
(* The relational store is modelled by the tables the services touch.      *)
(* Every database or network operation that the code wraps in its own      *)
(* try/except may fail; the failure is an input of the action.             *)
(***************************************************************************)
EXTENDS Integers, Sequences, FiniteSets, TLC

VARIABLES
    store,         \* [ev_enova].[EnovaApi_ImpHist]: number of rows per Attestnummer
    imp,           \* one record per import run (process_csv_file call in progress)
    log,           \* [ev_enova].[EnovaApi_Energiattest_url_log]: sequence of rows
    url,           \* [ev_enova].[EnovaApi_Energiattest_url]: detail rows per CertificateID
    clock,         \* wall clock, in hours
    api,           \* the process_certificates call in progress
    files,         \* the PDF download directory: size of each file, 0 when absent
    dl_log,        \* [ev_enova].[PDF_Download_Log]: sequence of rows
    dl,            \* the download_pdfs call in progress
    disk,          \* the PDF files below the scanned directory, as paths
    index,         \* [ev_enova].[EnergylabelIDFiles]: number of rows per full_path
    scan,          \* the scan_and_populate call in progress
    sample,        \* [ev_enova].[SampleTestDataForOpenAI]: the prompts of each FILE_ID
    answers,       \* [ev_enova].[OpenAIAnswers]: number of rows per file_id and PromptVersion
    oai,           \* the OpenAIEnergyService instance and its process_prompts call
    reply,         \* a response of the model and what _parse_openai_response makes of it
    clean_rows,    \* [ev_enova].[EnergyLabelCleanedText]: sequence of rows
    cln,           \* the record handed to clean_single_text and what it returned
    extract_rows,  \* [ev_enova].[EnergyLabelFileExtract]: sequence of rows
    ext,           \* the call of extract_text_from_pdf
    csv_files,     \* size of enova_data_<year>.csv per year, 0 when there is no file
    fd,            \* the download command of main.py and its FileDownloader calls
    cli,           \* a database-backed subcommand of main.py and its exit code
    pipe           \* one run of scripts/run_full_pipeline.py

importVars == <<store, imp>>
apiVars == <<log, url, clock, api>>
downloadVars == <<files, dl_log, dl>>
scanVars == <<disk, index, scan>>
openaiVars == <<sample, answers, oai>>
parseVars == <<reply>>
cleanVars == <<clean_rows, cln>>
extractVars == <<extract_rows, ext>>
yearVars == <<csv_files, fd>>
cliVars == <<cli>>
pipelineVars == <<pipe>>
vars ==
    <<store, imp, log, url, clock, api, files, dl_log, dl, disk, index, scan,
      sample, answers, oai, reply, clean_rows, cln, extract_rows, ext,
      csv_files, fd, cli, pipe>>

\* What the actions of one service leave alone.
notImport ==
    <<apiVars, downloadVars, scanVars, openaiVars, parseVars, cleanVars,
      extractVars, yearVars, cliVars, pipelineVars>>
notApi ==
    <<importVars, downloadVars, scanVars, openaiVars, parseVars, cleanVars,
      extractVars, yearVars, cliVars, pipelineVars>>
notDownload ==
    <<importVars, apiVars, scanVars, openaiVars, parseVars, cleanVars,
      extractVars, yearVars, cliVars, pipelineVars>>
notScan ==
    <<importVars, apiVars, downloadVars, openaiVars, parseVars, cleanVars,
      extractVars, yearVars, cliVars, pipelineVars>>
notOpenai ==
    <<importVars, apiVars, downloadVars, scanVars, parseVars, cleanVars,
      extractVars, yearVars, cliVars, pipelineVars>>
notParse ==
    <<importVars, apiVars, downloadVars, scanVars, openaiVars, cleanVars,
      extractVars, yearVars, cliVars, pipelineVars>>
notClean ==
    <<importVars, apiVars, downloadVars, scanVars, openaiVars, parseVars,
      extractVars, yearVars, cliVars, pipelineVars>>
notExtract ==
    <<importVars, apiVars, downloadVars, scanVars, openaiVars, parseVars,
      cleanVars, yearVars, cliVars, pipelineVars>>
notYear ==
    <<importVars, apiVars, downloadVars, scanVars, openaiVars, parseVars,
      cleanVars, extractVars, cliVars, pipelineVars>>
notCli ==
    <<importVars, apiVars, downloadVars, scanVars, openaiVars, parseVars,
      cleanVars, extractVars, yearVars, pipelineVars>>
notPipeline ==
    <<importVars, apiVars, downloadVars, scanVars, openaiVars, parseVars,
      cleanVars, extractVars, yearVars, cliVars>>

(***************************************************************************)
(* Values                                                                  *)
(***************************************************************************)
NULL == "NULL"          \* SQL NULL / Python None
NaN == "NaN"            \* an empty CSV field as pandas reads it

Keys == {"A1", "A2"}    \* certificate numbers occurring in the files
KeyVals == Keys \cup {NULL}

SmallKnr == "301"
BigKnr == "3000000000"  \* does not fit a 32-bit SQL int column
RawKnrVals == {SmallKnr, BigKnr}

\* pd.to_numeric on the numeric strings of the model.  A number n is held as
\* [k |-> n \div 1000, u |-> n % 1000], which keeps 64-bit values exact.
ToNumeric(s) ==
    CASE s = SmallKnr -> [k |-> 0, u |-> 301]
      [] s = BigKnr -> [k |-> 3000000, u |-> 0]

NumGt(a, b) == a.k > b.k \/ (a.k = b.k /\ a.u > b.u)

\* SQL Server int range: the largest value of an int column, 2,147,483,647
sql_int_max == [k |-> 2147483, u |-> 647]

\* ---- bounds of the model ----
MaxRows == 3            \* data rows of a CSV file
MaxStoreRows == 4       \* rows of the staging table before a run may start
CheckBatchSize == 2     \* stands for batch_size = 1000 of the existence check
BatchSizes == {1, 2}    \* the batch_size argument of process_csv_file

Min(a, b) == IF a < b THEN a ELSE b

RECURSIVE SumSeq(_)
SumSeq(s) == IF s = <<>> THEN 0 ELSE Head(s) + SumSeq(Tail(s))

SeqUpTo(S, n) == UNION {[1..k -> S] : k \in 0..n}

\* s[a+1 .. b], Python's s[a:b] for 0 <= a
Slice(s, a, b) == SubSeq(s, a + 1, Min(b, Len(s)))

(***************************************************************************)
(* CSV files                                                               *)
(***************************************************************************)
\* Columns a file of the model may carry.  "Ukjent" is not a column of the
\* staging table.
CsvHeaders ==
    { {"Attestnummer", "Knr"},
      {"Attestnummer"},
      {"Knr"},
      {"Attestnummer", "Knr", "Ukjent"},
      {"Ukjent"} }

\* A raw row gives the value of the two typed columns of the model; a column
\* the header lacks has no value (NaN here, never read).
RawRows(h) ==
    [Attestnummer : IF "Attestnummer" \in h THEN Keys \cup {NaN} ELSE {NaN},
     Knr : IF "Knr" \in h THEN RawKnrVals ELSE {NaN}]

CsvFiles ==
    UNION { {[header |-> h, rows |-> r] : r \in SeqUpTo(RawRows(h), MaxRows)}
            : h \in CsvHeaders }

(***************************************************************************)
(* create_column_mapping                                                   *)
(***************************************************************************)
expected_db_columns ==
    {"Knr", "Gnr", "Bnr", "Snr", "Fnr", "Andelsnummer", "Bygningsnummer",
     "GateAdresse", "Postnummer", "Poststed", "BruksEnhetsNummer",
     "Organisasjonsnummer", "Bygningskategori", "Byggear", "Energikarakter",
     "Oppvarmingskarakter", "Utstedelsesdato", "TypeRegistrering", "Attestnummer",
     "BeregnetLevertEnergiTotaltkWhm2", "BeregnetFossilandel", "Materialvalg",
     "HarEnergiVurdering", "EnergiVurderingDato"}

create_column_mapping(csv_columns) ==
    {c \in csv_columns : c \in expected_db_columns}

(***************************************************************************)
(* clean_and_validate_data                                                 *)
(***************************************************************************)
\* String field: astype(str) turns NaN into 'nan', which is replaced by None.
CleanString(v) == IF v = NaN THEN NULL ELSE v

\* Numeric field: to_numeric(errors='coerce').astype('Int64'); NaN stays null.
\* A cell keeps the decimal text of its number; ToNumeric gives the value.
CleanNumeric(v) == IF v = NaN THEN NULL ELSE v

CleanRow(r) ==
    [Attestnummer |-> CleanString(r.Attestnummer), Knr |-> CleanNumeric(r.Knr)]

\* dropna(how='all'): a row goes when every column of the frame is null.  The
\* values of an unrecognised column are taken to be non-null.
AllNull(h, r) ==
    /\ r.Attestnummer = NULL
    /\ r.Knr = NULL
    /\ "Ukjent" \notin h

\* The frame keeps every column of the file: the mapping is not applied.
clean_and_validate_data(file, mapping) ==
    LET cleaned == [i \in 1..Len(file.rows) |-> CleanRow(file.rows[i])]
    IN  [columns |-> file.header,
         rows |-> SelectSeq(cleaned, LAMBDA r : ~AllNull(file.header, r))]

(***************************************************************************)
(* The staging table                                                       *)
(***************************************************************************)
EmptyStore == [k \in KeyVals |-> 0]

RECURSIVE SumOver(_, _)
SumOver(f, S) ==
    IF S = {} THEN 0
    ELSE LET x == CHOOSE y \in S : TRUE IN f[x] + SumOver(f, S \ {x})

StoreSize(st) == SumOver(st, KeyVals)

Count(rows, k) == Len(SelectSeq(rows, LAMBDA r : r.Attestnummer = k))

\* The table's columns are the expected ones; Knr is a 32-bit int column.
Overflows(r) == r.Knr # NULL /\ NumGt(ToNumeric(r.Knr), sql_int_max)

\* cursor.executemany: the rows are sent one by one inside the open
\* transaction; the first row the server refuses raises.  The statement itself
\* is refused when it names a column the table does not have.
executemany(columns, batch_data) ==
    LET bad == {i \in 1..Len(batch_data) : Overflows(batch_data[i])}
        firstBad == CHOOSE i \in bad : \A j \in bad : i <= j
    IN  IF ~(columns \subseteq expected_db_columns)
        THEN [raised |-> TRUE, pending |-> <<>>]
        ELSE IF bad = {}
        THEN [raised |-> FALSE, pending |-> batch_data]
        ELSE [raised |-> TRUE, pending |-> SubSeq(batch_data, 1, firstBad - 1)]

\* A variant of Commit as it would be under a unique key: a row whose
\* certificate number is in the table already is not added.
CommitGuarded(st, pending) ==
    [k \in KeyVals |-> IF st[k] > 0 THEN st[k] ELSE st[k] + Count(pending, k)]

\* conn.commit(): the rows of the open transaction become rows of the table.
Commit(st, pending) == [k \in KeyVals |-> st[k] + Count(pending, k)]

\* A faulty variant of Rollback: the rollback is lost and the rows of the
\* failed batch stay in the table.
RollbackLost(st, pending) == Commit(st, pending)

\* conn.rollback(): the rows of the open transaction are discarded.
Rollback(st, pending) == st

(***************************************************************************)
(* check_existing_records                                                  *)
(***************************************************************************)
\* df['Attestnummer'].dropna().tolist()
attestnummer_list(rows) ==
    LET keyed == SelectSeq(rows, LAMBDA r : r.Attestnummer # NULL)
    IN  [i \in 1..Len(keyed) |-> keyed[i].Attestnummer]

\* SELECT [Attestnummer] ... WHERE [Attestnummer] IN (batch): one result row
\* per table row whose key is a member of the batch; NULL matches nothing.
\* The result is given as the number of result rows per key.
SelectIn(st, batch) ==
    [k \in KeyVals |->
        IF k # NULL /\ (\E i \in 1..Len(batch) : batch[i] = k) THEN st[k] ELSE 0]

\* The batches range(0, len(list), batch_size) of the existence check.
CheckBatches(list) ==
    [b \in 1..((Len(list) + CheckBatchSize - 1) \div CheckBatchSize) |->
        Slice(list, (b - 1) * CheckBatchSize, b * CheckBatchSize)]

\* all_existing, as the number of entries per key: the results of all batches.
all_existing(st, list) ==
    LET batches == CheckBatches(list)
    IN  [k \in KeyVals |->
            SumSeq([b \in 1..Len(batches) |-> SelectIn(st, batches[b])[k]])]

AllExistingLen(ex) == SumOver(ex, KeyVals)

\* A faulty variant of new_records_df: a row without a key is taken for an
\* existing one.
new_records_df_null_is_existing(rows, ex) ==
    SelectSeq(rows, LAMBDA r : r.Attestnummer # NULL /\ ~(ex[r.Attestnummer] > 0))

\* df[~df['Attestnummer'].isin(all_existing)]
new_records_df(rows, ex) ==
    SelectSeq(rows, LAMBDA r : ~(ex[r.Attestnummer] > 0))

\* dbOk = FALSE: the connection or a query of the check raises.
check_existing_records(df, st, dbOk) ==
    LET list == attestnummer_list(df.rows)
        asNew == [existing_count |-> 0, new_count |-> Len(df.rows),
                  new_records_df |-> df.rows, check_error |-> FALSE]
    IN  IF "Attestnummer" \notin df.columns THEN asNew
        ELSE IF list = <<>> THEN asNew
        ELSE IF ~dbOk THEN [asNew EXCEPT !.check_error = TRUE]
        ELSE LET ex == all_existing(st, list)
                 new == new_records_df(df.rows, ex)
             IN  [existing_count |-> AllExistingLen(ex), new_count |-> Len(new),
                  new_records_df |-> new, check_error |-> FALSE]

\* Whether the check reaches the database at all.
CheckQueries(df) ==
    "Attestnummer" \in df.columns /\ attestnummer_list(df.rows) # <<>>

(***************************************************************************)
(* process_csv_file / insert_to_database, one import run per process       *)
(***************************************************************************)
NoResult == [kind |-> "none"]

IdleRun ==
    [pc |-> "idle", skip_duplicates |-> FALSE, batch_size |-> 1,
     columns |-> {}, df |-> <<>>, df_to_insert |-> <<>>,
     skipped_count |-> 0, check_error |-> FALSE,
     start_idx |-> 0, inserted_rows |-> 0, failed_rows |-> 0, errors |-> <<>>,
     result |-> NoResult,
     total_processed |-> 0,     \* len(df) of the file as read
     store0 |-> EmptyStore,     \* history: the table when insert_to_database began
     outcomes |-> <<>>]         \* history: per batch attempted, was it committed

\* The dictionary insert_to_database returns.
InsertResult(ok, total, ins, skipped, failed, errs) ==
    [kind |-> "insert", success |-> ok, total_rows |-> total, inserted_rows |-> ins,
     skipped_rows |-> skipped, failed_rows |-> failed, errors |-> errs]

\* The dictionary of the outer except of insert_to_database.
InsertError(total) ==
    [kind |-> "insert error", success |-> FALSE, total_rows |-> total,
     inserted_rows |-> 0, skipped_rows |-> 0, failed_rows |-> total, errors |-> <<>>]

\* 'success' of the normal return of insert_to_database.
InsertSuccess(inserted, total, skipped) ==
    inserted > 0 \/ (total = 0 /\ skipped > 0)

\* process_csv_file up to the call of insert_to_database: read the file, map
\* the columns, clean the data.  No column mapped: ValueError, caught, and the
\* run ends with {'success': False, 'error': ...}.
StartImportOf(p, csv_files_read) ==
    /\ imp[p].pc = "idle"
    /\ \E file \in csv_files_read, bs \in BatchSizes, skip \in BOOLEAN :
        LET mapping == create_column_mapping(file.header)
            df == clean_and_validate_data(file, mapping)
        IN  /\ StoreSize(store) + Len(file.rows) <= MaxStoreRows
            /\ IF mapping = {}
               THEN imp' = [imp EXCEPT ![p] =
                        [IdleRun EXCEPT !.pc = "done",
                                        !.result = [kind |-> "error"],
                                        !.total_processed = Len(file.rows),
                                        !.store0 = store]]
               ELSE imp' = [imp EXCEPT ![p] =
                        [IdleRun EXCEPT !.pc = IF skip THEN "check" ELSE "insert",
                                        !.skip_duplicates = skip,
                                        !.batch_size = bs,
                                        !.columns = df.columns,
                                        !.df = df.rows,
                                        !.df_to_insert = df.rows,
                                        !.total_processed = Len(file.rows),
                                        !.store0 = store]]
    /\ UNCHANGED <<store, notImport>>

\* process_csv_file of any file of the model.
StartImport(p) == StartImportOf(p, CsvFiles)

\* insert_to_database, skip_duplicates branch: the existence check and the
\* early return when nothing is left to insert.
CheckExisting(p) ==
    /\ imp[p].pc = "check"
    /\ \E dbOk \in BOOLEAN :
        LET r == imp[p]
            df == [columns |-> r.columns, rows |-> r.df]
            chk == check_existing_records(df, store, dbOk)
        IN  /\ (~dbOk => CheckQueries(df))
            /\ IF Len(chk.new_records_df) = 0
               THEN imp' = [imp EXCEPT ![p] =
                        [r EXCEPT !.pc = "done",
                                  !.df_to_insert = chk.new_records_df,
                                  !.skipped_count = chk.existing_count,
                                  !.check_error = chk.check_error,
                                  !.result = InsertResult(TRUE, Len(r.df), 0,
                                                 chk.existing_count, 0, <<>>)]]
               ELSE imp' = [imp EXCEPT ![p] =
                        [r EXCEPT !.pc = "insert",
                                  !.df_to_insert = chk.new_records_df,
                                  !.skipped_count = chk.existing_count,
                                  !.check_error = chk.check_error]]
    /\ UNCHANGED <<store, notImport>>

\* pyodbc.connect raises before the first batch: the outer except of
\* insert_to_database returns the failure dictionary.
InsertConnectFails(p) ==
    /\ imp[p].pc = "insert"
    /\ imp[p].start_idx = 0
    /\ imp[p].outcomes = <<>>
    /\ imp' = [imp EXCEPT ![p].pc = "done",
                          ![p].result = InsertError(Len(imp[p].df))]
    /\ UNCHANGED <<store, notImport>>

\* One turn of the batch loop: executemany and commit, or record the error
\* and roll back.
InsertBatch(p) ==
    /\ imp[p].pc = "insert"
    /\ imp[p].start_idx < Len(imp[p].df_to_insert)
    /\ LET r == imp[p]
           total_rows == Len(r.df_to_insert)
           end_idx == Min(r.start_idx + r.batch_size, total_rows)
           batch_df == Slice(r.df_to_insert, r.start_idx, end_idx)
           ex == executemany(r.columns, batch_df)
       IN  IF ~ex.raised
           THEN /\ store' = Commit(store, ex.pending)
                /\ imp' = [imp EXCEPT ![p] =
                        [r EXCEPT !.inserted_rows = @ + Len(batch_df),
                                  !.start_idx = @ + r.batch_size,
                                  !.outcomes = Append(@, TRUE)]]
           ELSE /\ store' = Rollback(store, ex.pending)
                /\ imp' = [imp EXCEPT ![p] =
                        [r EXCEPT !.errors = Append(@, r.start_idx),
                                  !.failed_rows = @ + Len(batch_df),
                                  !.start_idx = @ + r.batch_size,
                                  !.outcomes = Append(@, FALSE)]]
    /\ UNCHANGED notImport

\* The loop is over: build and return the result.
FinishInsert(p) ==
    /\ imp[p].pc = "insert"
    /\ imp[p].start_idx >= Len(imp[p].df_to_insert)
    /\ LET r == imp[p]
           total_rows == Len(r.df_to_insert)
       IN  imp' = [imp EXCEPT ![p].pc = "done",
                       ![p].result =
                           InsertResult(InsertSuccess(r.inserted_rows, total_rows,
                                                      r.skipped_count),
                                        Len(r.df), r.inserted_rows, r.skipped_count,
                                        r.failed_rows, r.errors)]
    /\ UNCHANGED <<store, notImport>>

\* The caller has the result; the process is free for the next file.
ReturnImport(p) ==
    /\ imp[p].pc = "done"
    /\ imp' = [imp EXCEPT ![p] = IdleRun]
    /\ UNCHANGED <<store, notImport>>

ImportNext ==
    \/ \E p \in DOMAIN imp : StartImport(p)
    \/ \E p \in DOMAIN imp : CheckExisting(p)
    \/ \E p \in DOMAIN imp : InsertConnectFails(p)
    \/ \E p \in DOMAIN imp : InsertBatch(p)
    \/ \E p \in DOMAIN imp : FinishInsert(p)
    \/ \E p \in DOMAIN imp : ReturnImport(p)

\* ---- two import runs at the same time ----
MaxRaceRows == 1        \* data rows of a CSV file of two concurrent runs

Runs == {1, 2}

\* The files of certificate numbers alone.
RaceFiles ==
    {file \in CsvFiles :
        file.header = {"Attestnummer"} /\ Len(file.rows) <= MaxRaceRows}

\* A run over a file of certificate numbers alone, with skip_duplicates.
StartRaceImport(p) ==
    /\ StartImportOf(p, RaceFiles)
    /\ imp'[p].columns = {"Attestnummer"}
    /\ imp'[p].total_processed <= MaxRaceRows
    /\ imp'[p].skip_duplicates

RaceNext ==
    \/ \E p \in Runs : StartRaceImport(p)
    \/ \E p \in Runs : CheckExisting(p)
    \/ \E p \in Runs : InsertConnectFails(p)
    \/ \E p \in Runs : InsertBatch(p)
    \/ \E p \in Runs : FinishInsert(p)

(***************************************************************************)
(* Part II: the detail API client                                          *)
(***************************************************************************)
Certs == {101, 102}         \* CertificateID values the stored procedure returns

\* ---- bounds of the model ----
MaxParams == 2              \* parameter sets of one batch (top_rows)
MaxRecords == 1             \* certificates in one 200 answer
MaxClock == 2               \* hours the clock may reach
MaxLogRows == 2             \* rows of the log table
MaxUrlRows == 1             \* detail rows per certificate

\* hours_old of the cleanup that process_certificates runs first
startup_hours_old == 1

Pending == "Pending"

\* Sequences of distinct certificates: the rows Get_Enova_API_Parameters returns.
ParameterLists ==
    {ps \in SeqUpTo(Certs, MaxParams) :
        \A i, j \in 1..Len(ps) : i # j => ps[i] # ps[j]}

\* What the detail endpoint may answer to one POST.
HttpResponses ==
    {[status |-> 200, records |-> n, too_many |-> FALSE] : n \in 0..MaxRecords}
    \cup {[status |-> 400, records |-> 0, too_many |-> TRUE],
          [status |-> 400, records |-> 0, too_many |-> FALSE],
          [status |-> 429, records |-> 0, too_many |-> FALSE],
          [status |-> 500, records |-> 0, too_many |-> FALSE],
          [status |-> 0, records |-> 0, too_many |-> FALSE]}
\* status 0: no answer, session.post raised a RequestException

Raised(resp) == resp.status = 0

\* Return values of call_energiattest_api.
TOO_MANY_RESULTS == [tag |-> "TOO_MANY_RESULTS", n |-> 0]
None == [tag |-> "None", n |-> 0]
Data(n) == [tag |-> "data", n |-> n]

\* A faulty variant of ClassifyResponse: the body of a 400 answer is not
\* looked at.
ClassifyResponse_body_ignored(response) ==
    IF Raised(response) THEN None
    ELSE IF response.status # 200 THEN None
    ELSE Data(response.records)

\* The classification of the final response, after the 429 retry.
ClassifyResponse(response) ==
    IF Raised(response) THEN None
    ELSE IF response.status # 200
         THEN IF response.status = 400 /\ response.too_many
              THEN TOO_MANY_RESULTS
              ELSE None
         ELSE Data(response.records)

\* call_energiattest_api: first is the answer to the first POST, second the
\* answer to the POST repeated after a 429.
FinalResponse(first, second) ==
    IF ~Raised(first) /\ first.status = 429 THEN second ELSE first

call_energiattest_api(first, second) == ClassifyResponse(FinalResponse(first, second))

\* Python truthiness of api_data in "elif api_data:"
Truthy(api_data) == api_data.tag = "data" /\ api_data.n > 0

\* A faulty variant of Outcome: the except branch leaves status_message at
\* its initial value.
Outcome_status_not_reassigned(api_data, saved, saveRaised) ==
    IF api_data = TOO_MANY_RESULTS
    THEN [records_returned |-> 0, status_message |-> "Too many results (25+ eiendommer)"]
    ELSE IF Truthy(api_data)
    THEN IF saveRaised
         THEN [records_returned |-> 0, status_message |-> "Error"]
         ELSE IF saved > 0
         THEN [records_returned |-> api_data.n, status_message |-> "Success"]
         ELSE [records_returned |-> api_data.n,
               status_message |-> "API returned data but no records saved"]
    ELSE [records_returned |-> 0, status_message |-> "No records found"]

\* records_returned and status_message that process_certificates passes to
\* update_api_log; saved is what save_energiattest_data returned, saveRaised
\* whether it raised instead.
Outcome(api_data, saved, saveRaised) ==
    IF api_data = TOO_MANY_RESULTS
    THEN [records_returned |-> 0, status_message |-> "Too many results (25+ eiendommer)"]
    ELSE IF Truthy(api_data)
    THEN IF saveRaised
         THEN [records_returned |-> 0, status_message |-> "Error: save failed"]
         ELSE IF saved > 0
         THEN [records_returned |-> api_data.n, status_message |-> "Success"]
         ELSE [records_returned |-> api_data.n,
               status_message |-> "API returned data but no records saved"]
    ELSE [records_returned |-> 0, status_message |-> "No records found"]

\* A row of the log table as log_api_parameters inserts it; records_returned
\* is NULL (<<>>) until the update.
LogRow(cert, date) ==
    [CertificateID |-> cert, LogDate |-> date, status_message |-> Pending,
     records_returned |-> <<>>]

\* History: what the endpoint finally answered.
AnswerKind(response) ==
    IF Raised(response) THEN "transport"
    ELSE IF response.status = 200
         THEN IF response.records = 0 THEN "200 empty" ELSE "200 data"
    ELSE IF response.status = 400 /\ response.too_many THEN "400 too many"
    ELSE "other status"

\* UPDATE ... SET records_returned = ?, status_message = ?
\*  WHERE CertificateID = ? AND status_message = 'Pending'
UpdateMatches(row, certificate_id) ==
    row.CertificateID = certificate_id /\ row.status_message = Pending

\* update_api_log with WHERE CertificateID = ? alone.
update_api_log_any_status(lg, certificate_id, records_returned, status_message) ==
    [i \in 1..Len(lg) |->
        IF lg[i].CertificateID = certificate_id
        THEN [lg[i] EXCEPT !.records_returned = <<records_returned>>,
                           !.status_message = status_message]
        ELSE lg[i]]

\* EnovaApiClient.update_api_log; every row the WHERE clause matches is
\* updated.
update_api_log(lg, certificate_id, records_returned, status_message) ==
    [i \in 1..Len(lg) |->
        IF UpdateMatches(lg[i], certificate_id)
        THEN [lg[i] EXCEPT !.records_returned = <<records_returned>>,
                           !.status_message = status_message]
        ELSE lg[i]]

\* DELETE ... WHERE status_message = 'Pending'
\*   AND LogDate < DATEADD(HOUR, -hours_old, GETDATE())
CleanupMatches(row, hours_old, now) ==
    row.status_message = Pending /\ row.LogDate < now - hours_old

cleanup_old_pending_records(lg, hours_old, now) ==
    SelectSeq(lg, LAMBDA row : ~CleanupMatches(row, hours_old, now))

\* log_api_parameters: one INSERT per parameter set, each in its own
\* try/except; logged is the set of positions whose INSERT went through.
log_api_parameters(lg, parameters, batch_datetime, logged) ==
    LET kept == SelectSeq([i \in 1..Len(parameters) |-> i], LAMBDA i : i \in logged)
    IN  lg \o [j \in 1..Len(kept) |-> LogRow(parameters[kept[j]], batch_datetime)]

\* The locals of process_certificates.  answer is history.
IdleApi ==
    [pc |-> "idle", batch_datetime |-> 0 - 1, parameters |-> <<>>, i |-> 0,
     api_data |-> None, answer |-> "", status_message |-> "", result |-> "none"]

\* process_certificates, steps 0 and 1: purge stale Pending rows (a failure of
\* the purge is swallowed), then fetch the parameters (paramsOk = FALSE:
\* get_api_parameters raises, which the outer except turns into a failure).
StartProcess ==
    /\ api.pc = "idle"
    /\ api.batch_datetime < clock
    /\ \E cleanupOk \in BOOLEAN, paramsOk \in BOOLEAN, parameters \in ParameterLists :
        /\ Len(log) + Len(parameters) <= MaxLogRows
        /\ (~paramsOk => parameters = <<>>)
        /\ log' = IF cleanupOk
                  THEN cleanup_old_pending_records(log, startup_hours_old, clock)
                  ELSE log
        /\ IF ~paramsOk
           THEN api' = [IdleApi EXCEPT !.pc = "done", !.batch_datetime = clock,
                                      !.result = "Processing failed"]
           ELSE IF parameters = <<>>
           THEN api' = [IdleApi EXCEPT !.pc = "done", !.batch_datetime = clock,
                                      !.result = "No parameters found"]
           ELSE api' = [IdleApi EXCEPT !.pc = "log", !.batch_datetime = clock,
                                      !.parameters = parameters]
    /\ UNCHANGED <<url, clock, notApi>>

\* Step 2: log_api_parameters.  commitOk = FALSE: the connection or the
\* commit raises, which ends process_certificates in its outer except.
LogParameters ==
    /\ api.pc = "log"
    /\ \E commitOk \in BOOLEAN, logged \in SUBSET (1..Len(api.parameters)) :
        IF commitOk
        THEN /\ log' = log_api_parameters(log, api.parameters, api.batch_datetime, logged)
             /\ api' = [api EXCEPT !.pc = "call", !.i = 1]
        ELSE /\ logged = {}
             /\ log' = log
             /\ api' = [api EXCEPT !.pc = "done", !.result = "Processing failed"]
    /\ UNCHANGED <<url, clock, notApi>>

\* Step 3, first half: call_energiattest_api for parameters[i].
CallApi ==
    /\ api.pc = "call"
    /\ \E first \in HttpResponses, second \in HttpResponses :
        /\ (Raised(first) \/ first.status # 429) => second = first
        /\ url[api.parameters[api.i]] + FinalResponse(first, second).records <= MaxUrlRows
        /\ api' = [api EXCEPT
                !.pc = "called",
                !.status_message = "Error",
                !.answer = AnswerKind(FinalResponse(first, second)),
                !.api_data = call_energiattest_api(first, second)]
    /\ UNCHANGED <<log, url, clock, notApi>>

\* Step 3, second half: save the records, then update the log; on to the
\* next parameter set, or to the summary after the last one.
RecordOutcome ==
    /\ api.pc = "called"
    /\ \E saved \in 0..api.api_data.n, saveRaised \in BOOLEAN, updateOk \in BOOLEAN :
        LET certificate_id == api.parameters[api.i]
            saves == Truthy(api.api_data)
            out == Outcome(api.api_data, saved, saveRaised)
            records_saved == IF saves /\ ~saveRaised THEN saved ELSE 0
            last == api.i = Len(api.parameters)
        IN  /\ (~saves => saved = 0 /\ ~saveRaised)
            /\ (saveRaised => saved = 0)
            /\ url' = [url EXCEPT ![certificate_id] = @ + records_saved]
            /\ log' = IF updateOk
                      THEN update_api_log(log, certificate_id, out.records_returned,
                                          out.status_message)
                      ELSE log
            /\ api' = [api EXCEPT
                    !.pc = IF last THEN "done" ELSE "call",
                    !.i = IF last THEN @ ELSE @ + 1,
                    !.status_message = out.status_message,
                    !.result = IF last THEN "Processing completed successfully" ELSE @]
    /\ UNCHANGED <<clock, notApi>>

\* The process is interrupted (KeyboardInterrupt is no Exception: nothing
\* catches it) and the run ends where it stands.
Interrupt ==
    /\ api.pc \in {"log", "call", "called"}
    /\ api' = [api EXCEPT !.pc = "done", !.result = "interrupted"]
    /\ UNCHANGED <<log, url, clock, notApi>>

\* The command has ended; the next one builds a new client.
ReturnApi ==
    /\ api.pc = "done"
    /\ api' = [IdleApi EXCEPT !.batch_datetime = api.batch_datetime]
    /\ UNCHANGED <<log, url, clock, notApi>>

\* Time passes.  The clock is read when a run starts and nowhere else, so a
\* tick during a run is a tick after it.
Tick ==
    /\ api.pc = "idle"
    /\ clock < MaxClock
    /\ clock' = clock + 1
    /\ UNCHANGED <<log, url, api, notApi>>

\* The values of --hours of the cleanup command (type=int: a negative number
\* is accepted and moves the limit into the future).
Windows == (0 - 1)..(MaxClock + 1)

\* main.py cleanup --hours h: cleanup_pending_records builds a client and
\* calls cleanup_old_pending_records(h); cleanupOk = FALSE: the connection or
\* the DELETE raises, which the method swallows (0 rows deleted).
CleanupPendingRecords ==
    /\ api.pc = "idle"
    /\ \E hours \in Windows, cleanupOk \in BOOLEAN :
        log' = IF cleanupOk
               THEN cleanup_old_pending_records(log, hours, clock)
               ELSE log
    /\ UNCHANGED <<url, clock, api, notApi>>

\* RecordOutcome of a parameter set whose save stores no new detail row.
RecordOutcomeUnsaved == RecordOutcome /\ url' = url

(***************************************************************************)
(* Part III: the PDF downloader (src/src/services/pdf_downloader.py)        *)
(***************************************************************************)
FileNames == {"a.pdf", "b.pdf"}     \* expected_filename values

\* ---- bounds of the model ----
MaxUrls == 2                \* URLs of one batch (count)
MaxDlLog == 2               \* rows of the download log

\* Skip very large files (over 50MB)
max_pdf_size == 50 * 1024 * 1024

\* Less than 1KB is suspicious for a PDF
small_pdf_size == 1024

\* Body sizes of the model, in bytes.
BodySizes == {500, 2048, max_pdf_size, max_pdf_size + 1}

\* What the server may do with one GET.  content_length = 0: the answer
\* carries no Content-Length header.  kind "http error": the request or
\* raise_for_status raises a RequestException; "stream error": iter_content
\* raises one after part of the body is on disk; "os error": opening or
\* writing the file raises.  error_page: the first bytes hold '<html' or
\* 'error'.
PdfResponses ==
    [kind : {"ok", "http error", "stream error", "os error"},
     content_length : {0} \cup BodySizes,
     body : BodySizes,
     error_page : BOOLEAN]

Absent == 0
NoFiles == [f \in FileNames |-> Absent]

\* A faulty variant of download_pdf: the existing file is not looked for.
download_pdf_without_exists_check(fs, filename, response) ==
    IF response.kind = "http error"
    THEN [files |-> fs, status |-> "HTTP Error", ok |-> FALSE, requests |-> 1]
    ELSE IF response.content_length # 0 /\ response.content_length > max_pdf_size
    THEN [files |-> fs, status |-> "File Too Large", ok |-> FALSE, requests |-> 1]
    ELSE [files |-> [fs EXCEPT ![filename] = response.body],
          status |-> "Success", ok |-> TRUE, requests |-> 1]

\* download_pdf: the directory it leaves, the status it logs, its return
\* value and the number of GET requests it made.
download_pdf(fs, filename, response) ==
    IF fs[filename] # Absent
    THEN [files |-> fs, status |-> "Already Exists", ok |-> TRUE, requests |-> 0]
    ELSE IF response.kind = "http error"
    THEN [files |-> fs, status |-> "HTTP Error", ok |-> FALSE, requests |-> 1]
    ELSE IF response.content_length # 0 /\ response.content_length > max_pdf_size
    THEN [files |-> fs, status |-> "File Too Large", ok |-> FALSE, requests |-> 1]
    ELSE IF response.kind = "stream error"
    THEN [files |-> fs, status |-> "HTTP Error", ok |-> FALSE, requests |-> 1]
    ELSE IF response.kind = "os error"
    THEN [files |-> fs, status |-> "Error", ok |-> FALSE, requests |-> 1]
    ELSE IF response.body < small_pdf_size /\ response.error_page
    THEN [files |-> fs, status |-> "Invalid Content", ok |-> FALSE, requests |-> 1]
    ELSE [files |-> [fs EXCEPT ![filename] = response.body],
          status |-> "Success", ok |-> TRUE, requests |-> 1]

\* log_download_attempt: the INSERT, or nothing when it raises (logged and
\* swallowed).
log_download_attempt(lg, filename, status, logOk) ==
    IF logOk THEN Append(lg, [filename |-> filename, status |-> status]) ELSE lg

\* The counters and locals of download_pdfs.  requests, expected_size, body
\* and success are history: the GET requests of the batch, the Content-Length
\* (0: none) and the body size of the last answer, and the last return value
\* of download_pdf.
IdleDownload ==
    [pc |-> "idle", urls |-> <<>>, i |-> 0,
     downloads_attempted |-> 0, downloads_successful |-> 0,
     downloads_failed |-> 0, downloads_skipped |-> 0,
     requests |-> 0, expected_size |-> 0, body |-> 0, success |-> FALSE]

\* download_pdfs up to the loop: reset the counters, get the URLs.
StartDownloads ==
    /\ dl.pc = "idle"
    /\ \E urls \in SeqUpTo(FileNames, MaxUrls) :
        /\ Len(dl_log) + Len(urls) <= MaxDlLog
        /\ dl' = [IdleDownload EXCEPT !.pc = IF urls = <<>> THEN "done" ELSE "loop",
                                      !.urls = urls,
                                      !.i = IF urls = <<>> THEN 0 ELSE 1]
    /\ UNCHANGED <<files, dl_log, notDownload>>

\* One turn of the loop of download_pdfs: download_pdf for urls[i].
DownloadPdf ==
    /\ dl.pc = "loop"
    /\ \E response \in PdfResponses, logOk \in BOOLEAN :
        LET filename == dl.urls[dl.i]
            out == download_pdf(files, filename, response)
            last == dl.i = Len(dl.urls)
        IN  /\ (response.kind # "ok" => response.body = 500 /\ ~response.error_page)
            /\ (response.kind = "http error" => response.content_length = 0)
            /\ (response.body >= small_pdf_size => ~response.error_page)
            /\ (files[filename] # Absent =>
                    response = [kind |-> "ok", content_length |-> 0, body |-> 500,
                                error_page |-> FALSE])
            /\ files' = out.files
            /\ dl_log' = log_download_attempt(dl_log, filename, out.status, logOk)
            /\ dl' = [dl EXCEPT
                    !.pc = IF last THEN "done" ELSE "loop",
                    !.i = IF last THEN @ ELSE @ + 1,
                    !.downloads_attempted = @ + 1,
                    !.downloads_successful =
                        IF out.status = "Success" THEN @ + 1 ELSE @,
                    !.downloads_skipped =
                        IF out.status = "Already Exists" THEN @ + 1 ELSE @,
                    !.downloads_failed = IF out.ok THEN @ ELSE @ + 1,
                    !.requests = @ + out.requests,
                    !.expected_size = response.content_length,
                    !.body = IF out.requests = 0 \/ response.kind = "http error"
                             THEN 0 ELSE response.body,
                    !.success = out.ok]
    /\ UNCHANGED notDownload

\* download_pdfs returns its summary; the next command starts anew.
ReturnDownloads ==
    /\ dl.pc = "done"
    /\ dl' = IdleDownload
    /\ UNCHANGED <<files, dl_log, notDownload>>

DownloadIdle ==
    /\ files = NoFiles
    /\ dl_log = <<>>
    /\ dl = IdleDownload

DownloadNext ==
    \/ StartDownloads
    \/ DownloadPdf
    \/ ReturnDownloads

(***************************************************************************)
(* Part IV: the PDF file scanner (src/src/services/pdf_scanner.py)          *)
(***************************************************************************)
\* A file is the pair of its directory and its name; the row of a file holds
\* filename = name and full_path = the pair.
TreePaths ==
    {[dir |-> "d1", name |-> "x.pdf"], [dir |-> "d2", name |-> "x.pdf"],
     [dir |-> "d1", name |-> "y.pdf"]}

\* The files of the scan scenario: ten on disk, seven of them indexed, and two
\* indexed files that are gone.
ScenarioNames(S) == {[dir |-> "pdfs", name |-> n] : n \in S}
ScenarioIndexed ==
    ScenarioNames({"f01.pdf", "f02.pdf", "f03.pdf", "f04.pdf", "f05.pdf",
                   "f06.pdf", "f07.pdf"})
ScenarioNew == ScenarioNames({"f08.pdf", "f09.pdf", "f10.pdf"})
ScenarioStale == ScenarioNames({"f11.pdf", "f12.pdf"})

Paths == TreePaths \cup ScenarioIndexed \cup ScenarioNew \cup ScenarioStale

\* ---- bounds of the model ----
MaxIndexRows == 4           \* rows the index may reach before a scan starts
MaxRefused == 2             \* files of one run whose row the server refuses

ScanBatchSizes == {2, 100}  \* batch_size; 100 is the default

EmptyIndex == [p \in Paths |-> 0]
IndexSize(idx) == SumOver(idx, Paths)

\* The files in the order the directory walk yields them.
RECURSIVE InWalkOrder(_)
InWalkOrder(S) ==
    IF S = {} THEN <<>>
    ELSE LET p == CHOOSE q \in S : TRUE IN <<p>> \o InWalkOrder(S \ {p})

\* SELECT filename FROM [ev_enova].[EnergylabelIDFiles]; the empty set when
\* the query raises.
get_existing_files(idx, existOk) ==
    IF existOk THEN {p.name : p \in {q \in Paths : idx[q] > 0}} ELSE {}

\* self.pdf_directory.rglob("*.pdf")
scan_pdf_directory(dsk) == InWalkOrder(dsk)

\* A faulty variant of cleanup_deleted_files: nothing is deleted.
cleanup_deleted_files_keeps_all(idx, dsk, cleanupOk) ==
    [index |-> idx, deleted_count |-> 0]

\* cleanup_deleted_files: the rows whose full_path is not on disk are deleted;
\* when a statement raises, everything is rolled back and 0 is returned.
cleanup_deleted_files(idx, dsk, cleanupOk) ==
    LET kept == [p \in Paths |-> IF p \in dsk THEN idx[p] ELSE 0]
    IN  IF cleanupOk
        THEN [index |-> kept, deleted_count |-> IndexSize(idx) - IndexSize(kept)]
        ELSE [index |-> idx, deleted_count |-> 0]

\* The filter loop of scan_and_populate.
files_to_insert(all_pdf_files, skip_existing, existing_files) ==
    SelectSeq(all_pdf_files,
              LAMBDA f : ~(skip_existing /\ f.name \in existing_files))

\* The rows of a batch that are inserted: one per position.
RowsOf(batch, positions) ==
    [p \in Paths |-> Cardinality({i \in positions : batch[i] = p})]

AddRows(idx, rows) == [p \in Paths |-> idx[p] + rows[p]]

\* The rows executemany has sent when it raises: those before the first row
\* the server refuses, all of them when the commit raises.
SentBeforeFailure(batch, refused) ==
    LET bad == {i \in 1..Len(batch) : batch[i] \in refused}
    IN  IF bad = {} THEN 1..Len(batch)
        ELSE {i \in 1..Len(batch) : \A j \in bad : i < j}

\* A faulty variant of insert_file_batch: the failed batch is not rolled
\* back, and the first commit of the fallback takes its rows along.
insert_file_batch_without_rollback(idx, batch, refused, connOk, batchRaises) ==
    LET accepted == {i \in 1..Len(batch) : batch[i] \notin refused}
    IN  IF batch = <<>> \/ ~connOk
        THEN [index |-> idx, successful_inserts |-> 0]
        ELSE IF ~batchRaises
        THEN [index |-> AddRows(idx, RowsOf(batch, 1..Len(batch))),
              successful_inserts |-> Len(batch)]
        ELSE [index |-> AddRows(AddRows(idx, RowsOf(batch, accepted)),
                                RowsOf(batch, IF accepted = {} THEN {}
                                              ELSE SentBeforeFailure(batch, refused))),
              successful_inserts |-> Cardinality(accepted)]

\* insert_file_batch: the batched statement, or after its rollback one
\* statement and one commit per row.  refused: the files whose row the server
\* does not take, for whatever reason (the table is defined outside the
\* source, so a unique index on filename may or may not exist); connOk =
\* FALSE: no connection, the outer except returns 0.
insert_file_batch(idx, batch, refused, connOk, batchRaises) ==
    LET accepted == {i \in 1..Len(batch) : batch[i] \notin refused}
    IN  IF batch = <<>> \/ ~connOk
        THEN [index |-> idx, successful_inserts |-> 0]
        ELSE IF ~batchRaises
        THEN [index |-> AddRows(idx, RowsOf(batch, 1..Len(batch))),
              successful_inserts |-> Len(batch)]
        ELSE [index |-> AddRows(idx, RowsOf(batch, accepted)),
              successful_inserts |-> Cardinality(accepted)]

\* The counters and locals of scan_and_populate.  History: index0 and disk0,
\* the index and the files when the run began; cleanup_failed and
\* existing_failed, whether the two queries raised; refused, the files whose
\* row the server does not take in this run; connected and raised, what
\* happened to the last batch.
IdleScan ==
    [pc |-> "idle", skip_existing |-> TRUE, cleanup_deleted |-> TRUE,
     batch_size |-> 100, to_insert |-> <<>>, i |-> 0,
     files_processed |-> 0, files_skipped |-> 0, files_added |-> 0,
     deleted_count |-> 0,
     index0 |-> EmptyIndex, cleanup_failed |-> FALSE, existing_failed |-> FALSE,
     refused |-> {}, connected |-> FALSE, raised |-> FALSE]

\* scan_and_populate up to the insert loop: cleanup, the indexed filenames,
\* the directory walk and the filter.
StartScan ==
    /\ scan.pc = "idle"
    /\ \E skip_existing \in BOOLEAN, cleanup_deleted \in BOOLEAN,
          batch_size \in ScanBatchSizes, cleanupOk \in BOOLEAN, existOk \in BOOLEAN :
        LET cleaned == IF cleanup_deleted
                       THEN cleanup_deleted_files(index, disk, cleanupOk)
                       ELSE [index |-> index, deleted_count |-> 0]
            existing_files == IF skip_existing
                              THEN get_existing_files(cleaned.index, existOk)
                              ELSE {}
            all_pdf_files == scan_pdf_directory(disk)
            new == files_to_insert(all_pdf_files, skip_existing, existing_files)
        IN  /\ (~cleanup_deleted => cleanupOk)
            /\ (~skip_existing => existOk)
            /\ index' = cleaned.index
            /\ \E refused \in SUBSET {new[j] : j \in 1..Len(new)} :
                /\ Cardinality(refused) <= MaxRefused
                /\ scan' = [IdleScan EXCEPT
                    !.pc = IF new = <<>> THEN "done" ELSE "insert",
                    !.skip_existing = skip_existing,
                    !.cleanup_deleted = cleanup_deleted,
                    !.batch_size = batch_size,
                    !.to_insert = new,
                    !.files_processed = Len(all_pdf_files),
                    !.files_skipped = Len(all_pdf_files) - Len(new),
                    !.deleted_count = cleaned.deleted_count,
                    !.index0 = index,
                    !.cleanup_failed = ~cleanupOk,
                    !.existing_failed = ~existOk,
                    !.refused = refused]
    /\ UNCHANGED <<disk, notScan>>

\* One turn of the insert loop: insert_file_batch for the next batch.
InsertFileBatch ==
    /\ scan.pc = "insert"
    /\ \E connOk \in BOOLEAN, batchRaises \in BOOLEAN :
        LET batch == Slice(scan.to_insert, scan.i, scan.i + scan.batch_size)
            out == insert_file_batch(index, batch, scan.refused, connOk, batchRaises)
            last == scan.i + scan.batch_size >= Len(scan.to_insert)
        IN  /\ ((\E j \in 1..Len(batch) : batch[j] \in scan.refused) => batchRaises)
            /\ (~connOk => ~batchRaises)
            /\ index' = out.index
            /\ scan' = [scan EXCEPT
                    !.pc = IF last THEN "done" ELSE "insert",
                    !.i = @ + scan.batch_size,
                    !.files_added = @ + out.successful_inserts,
                    !.connected = connOk,
                    !.raised = batchRaises]
    /\ UNCHANGED <<disk, notScan>>

\* scan_and_populate returns its summary; the next command builds a new
\* scanner.
ReturnScan ==
    /\ scan.pc = "done"
    /\ scan' = IdleScan
    /\ UNCHANGED <<disk, index, notScan>>

\* Between two scans a PDF file appears in the tree or goes away.
FileAppears ==
    /\ scan.pc = "idle"
    /\ \E p \in TreePaths \ disk : disk' = disk \cup {p}
    /\ UNCHANGED <<index, scan, notScan>>

FileGoes ==
    /\ scan.pc = "idle"
    /\ \E p \in disk : disk' = disk \ {p}
    /\ UNCHANGED <<index, scan, notScan>>

ScanIdle ==
    /\ disk = {}
    /\ index = EmptyIndex
    /\ scan = IdleScan

ScanNext ==
    \/ IndexSize(index) + Cardinality(disk) <= MaxIndexRows /\ StartScan
    \/ InsertFileBatch
    \/ ReturnScan
    \/ FileAppears
    \/ FileGoes

\* The scan scenario: one run from ten files on disk and nine rows.
ScenarioDisk == ScenarioIndexed \cup ScenarioNew

ScenarioIndex ==
    [p \in Paths |-> IF p \in ScenarioIndexed \cup ScenarioStale THEN 1 ELSE 0]

ScenarioNext ==
    \/ StartScan
    \/ InsertFileBatch

(***************************************************************************)
(* Part V: the LLM service (src/src/services/openai_service.py)             *)
(***************************************************************************)
FileIds == 1..2
PromptVersions == {"PROMPT_V1_NOR", "PROMPT_V2_NOR"}

\* The values of a prompt column: no value, blanks only, a prompt, and a
\* prompt for which the model call need not ever succeed (one longer than
\* the context window: the call raises each time).
BlankPrompt == "   "
GoodPrompt == "Analyser energiattesten"
RefusedPrompt == "Analyser energiattesten <for lang>"
PromptTexts == {NULL, BlankPrompt, GoodPrompt, RefusedPrompt}

\* ---- bounds of the model ----
MaxLimit == 2               \* largest --limit of a run
MaxCalls == 2               \* process_prompts calls on one service instance

NoLimit == 0                \* limit=None, and limit=0 which the code takes alike
Limits == {NoLimit} \cup 1..MaxLimit

\* LEN(TRIM(x)) of the query.
LenTrim(text) ==
    CASE text = BlankPrompt -> 0
      [] text = GoodPrompt -> 23
      [] text = RefusedPrompt -> 34

NoSample == [f \in FileIds |-> [v \in PromptVersions |-> NULL]]
NoAnswers == [f \in FileIds |-> [v \in PromptVersions |-> 0]]

\* The file ids of S in ascending order: ORDER BY FILE_ID.
RECURSIVE OrderByFileId(_)
OrderByFileId(S) ==
    IF S = {} THEN <<>>
    ELSE LET f == CHOOSE x \in S : \A y \in S : x <= y
         IN  <<f>> \o OrderByFileId(S \ {f})

\* SELECT TOP n of the ordered rows.
Top(rows, limit) == IF limit = NoLimit THEN rows ELSE SubSeq(rows, 1, Min(limit, Len(rows)))

\* A faulty variant of get_prompts_data: the subquery has no PromptVersion
\* filter, so an answer for any version excludes the file id.
get_prompts_data_any_version(smp, ans, prompt_column, limit) ==
    LET selected == {f \in FileIds :
                        /\ \A v \in PromptVersions : ans[f][v] = 0
                        /\ smp[f][prompt_column] # NULL
                        /\ LenTrim(smp[f][prompt_column]) > 0}
        rows == Top(OrderByFileId(selected), limit)
    IN  [j \in 1..Len(rows) |->
            [file_id |-> rows[j], prompt_text |-> smp[rows[j]][prompt_column],
             prompt_version |-> prompt_column]]

\* get_prompts_data: the rows of the source table with no answer for
\* prompt_column and a prompt that is neither NULL nor blank, by FILE_ID, at
\* most limit of them.
get_prompts_data(smp, ans, prompt_column, limit) ==
    LET selected == {f \in FileIds :
                        /\ ans[f][prompt_column] = 0
                        /\ smp[f][prompt_column] # NULL
                        /\ LenTrim(smp[f][prompt_column]) > 0}
        rows == Top(OrderByFileId(selected), limit)
    IN  [j \in 1..Len(rows) |->
            [file_id |-> rows[j], prompt_text |-> smp[rows[j]][prompt_column],
             prompt_version |-> prompt_column]]

\* save_openai_response: one INSERT; False and no row when it raises.
save_openai_response(ans, file_id, prompt_version, saveOk) ==
    IF saveOk
    THEN [answers |-> [ans EXCEPT ![file_id][prompt_version] = @ + 1], ok |-> TRUE]
    ELSE [answers |-> ans, ok |-> FALSE]

\* A new service instance: OpenAIEnergyService.__init__.  calls counts the
\* process_prompts calls made on it.
NewOpenAIEnergyService ==
    [pc |-> "idle", processed_count |-> 0, error_count |-> 0, calls |-> 0,
     prompt_column |-> "PROMPT_V1_NOR", limit |-> NoLimit,
     prompts_data |-> <<>>, i |-> 0, success |-> TRUE, total_prompts |-> 0]

\* process_prompts up to its loop: get_prompts_data, which raises when the
\* database does not answer, and the early return when there is no prompt.
StartPrompts ==
    /\ oai.pc = "idle"
    /\ oai.calls < MaxCalls
    /\ \E prompt_column \in PromptVersions, limit \in Limits, dbOk \in BOOLEAN :
        LET prompts_data == IF dbOk
                            THEN get_prompts_data(sample, answers, prompt_column, limit)
                            ELSE <<>>
        IN  oai' = [oai EXCEPT
                !.pc = IF prompts_data = <<>> THEN "done" ELSE "loop",
                !.calls = @ + 1,
                !.prompt_column = prompt_column,
                !.limit = limit,
                !.prompts_data = prompts_data,
                !.i = 1,
                !.success = dbOk,
                !.total_prompts = Len(prompts_data)]
    /\ UNCHANGED <<sample, answers, notOpenai>>

\* One turn of the loop: call_openai_api, which returns None when the call
\* raises, then save_openai_response.
ProcessPrompt ==
    /\ oai.pc = "loop"
    /\ \E apiOk \in BOOLEAN, saveOk \in BOOLEAN :
        LET prompt_data == oai.prompts_data[oai.i]
            saved == save_openai_response(answers, prompt_data.file_id,
                                          prompt_data.prompt_version, saveOk)
        IN  /\ (~apiOk => saveOk)
            /\ answers' = IF apiOk THEN saved.answers ELSE answers
            /\ oai' = [oai EXCEPT
                    !.pc = IF oai.i = Len(oai.prompts_data) THEN "done" ELSE "loop",
                    !.i = @ + 1,
                    !.processed_count = IF apiOk /\ saved.ok THEN @ + 1 ELSE @,
                    !.error_count = IF apiOk /\ saved.ok THEN @ ELSE @ + 1]
    /\ UNCHANGED <<sample, notOpenai>>

\* process_prompts returns its summary; the instance keeps its counters.
ReturnPrompts ==
    /\ oai.pc = "done"
    /\ oai' = [oai EXCEPT !.pc = "idle", !.prompts_data = <<>>, !.i = 0]
    /\ UNCHANGED <<sample, answers, notOpenai>>

\* The next command builds a new service instance.
NewService ==
    /\ oai.pc = "idle"
    /\ oai.calls > 0
    /\ oai' = NewOpenAIEnergyService
    /\ UNCHANGED <<sample, answers, notOpenai>>

\* The run is interrupted in its loop (Ctrl-C, a kill): KeyboardInterrupt is
\* no Exception, so it leaves process_prompts and ends the command; the
\* answers committed so far stay, the instance is gone.
InterruptPrompts ==
    /\ oai.pc = "loop"
    /\ oai' = NewOpenAIEnergyService
    /\ UNCHANGED <<sample, answers, notOpenai>>

\* The earlier stages fill a prompt column of the source table.
PromptWritten ==
    /\ oai.pc = "idle"
    /\ oai.calls = 0
    /\ \E f \in FileIds, v \in PromptVersions, text \in PromptTexts \ {NULL} :
        /\ sample[f][v] = NULL
        /\ sample' = [sample EXCEPT ![f][v] = text]
    /\ UNCHANGED <<answers, oai, notOpenai>>

\* ---- repeated runs for one prompt version ----
ResumeVersion == "PROMPT_V1_NOR"

\* A run of the openai command for the version.
StartResume ==
    /\ StartPrompts
    /\ oai'.prompt_column = ResumeVersion

\* The fetch of a run answers.
StartResumeFetched ==
    /\ StartResume
    /\ oai'.success

\* The turn of the loop for file id f, when its prompt is one the model
\* answers and both the call and the save succeed.
AnswerGoodPrompt(f) ==
    /\ ProcessPrompt
    /\ oai.prompts_data[oai.i].file_id = f
    /\ oai.prompts_data[oai.i].prompt_text = GoodPrompt
    /\ answers'[f][ResumeVersion] > answers[f][ResumeVersion]

ResumeNext ==
    \/ StartResume
    \/ ProcessPrompt
    \/ ReturnPrompts
    \/ NewService
    \/ InterruptPrompts

\* Runs are repeated and their fetch answers again and again; the runs of a
\* given limit are not every time interrupted before their next turn of the
\* loop; a run returns; a call and save for a prompt the model answers,
\* tried again and again, succeed in the end.
ResumeFairness ==
    /\ SF_vars(StartResumeFetched)
    /\ \A limit \in Limits : SF_vars(ProcessPrompt /\ oai.limit = limit)
    /\ WF_vars(ReturnPrompts)
    /\ WF_vars(NewService)
    /\ \A f \in FileIds : SF_vars(AnswerGoodPrompt(f))

OpenaiIdle ==
    /\ sample = NoSample
    /\ answers = NoAnswers
    /\ oai = NewOpenAIEnergyService

OpenaiNext ==
    \/ StartPrompts
    \/ ProcessPrompt
    \/ ReturnPrompts
    \/ NewService
    \/ InterruptPrompts
    \/ PromptWritten

(***************************************************************************)
(* The response parser of the LLM service                                   *)
(***************************************************************************)
\* A response is a sequence of tokens with blanks between them: the three
\* section headers (each stands for every casing of it, the patterns are
\* matched with IGNORECASE), a heading only the line scanner knows, a word
\* in bold, a word longer than the column, and the line break.
Eiendom == "Eiendom:"
PositiveTing == "Positive ting:"
KortVurdering == "Kort vurdering:"
Konklusjon == "Konklusjon:"
BoldWord == "**tett**"
LongWord == "x...x (2000)"
NL == "\n"
Tokens == {Eiendom, PositiveTing, KortVurdering, Konklusjon, BoldWord, LongWord, NL}

\* ---- bounds of the model ----
MaxTokens == 5              \* tokens of a response

Placeholder == "Ikke tilgjengelig i responsen"
CutLongWord == "x...x (1987)..."

\* Number of characters of a token.
TokenLen(tok) ==
    CASE tok = Eiendom -> 8
      [] tok = PositiveTing -> 14
      [] tok = KortVurdering -> 15
      [] tok = Konklusjon -> 11
      [] tok = BoldWord -> 8
      [] tok = "tett" -> 4
      [] tok = LongWord -> 2000
      [] tok = NL -> 1
      [] OTHER -> 29

\* len(text): the tokens and the blanks between them.
RECURSIVE TextLen(_)
TextLen(text) ==
    IF text = <<>> THEN 0
    ELSE IF Len(text) = 1 THEN TokenLen(text[1])
    ELSE TokenLen(text[1]) + 1 + TextLen(Tail(text))

\* str.strip(): the line breaks at both ends go.
RECURSIVE strip(_)
strip(text) ==
    IF text = <<>> THEN <<>>
    ELSE IF Head(text) = NL THEN strip(Tail(text))
    ELSE IF text[Len(text)] = NL THEN strip(SubSeq(text, 1, Len(text) - 1))
    ELSE text

\* Position of the first token of toks in text[from..], 0 when there is none.
FirstOf(text, toks, from) ==
    LET hits == {i \in from..Len(text) : text[i] \in toks}
    IN  IF hits = {} THEN 0 ELSE CHOOSE i \in hits : \A j \in hits : i <= j

\* _clean_markdown_formatting, and before it the replacement of line breaks
\* by blanks: the emphasis marks of a word go, runs of white space become
\* one blank.
_clean_markdown_formatting(text) ==
    LET words == SelectSeq(text, LAMBDA tok : tok # NL)
    IN  [i \in 1..Len(words) |-> IF words[i] = BoldWord THEN "tett" ELSE words[i]]

\* re.search of  header\s*(.*?)(?=stop|$)  with DOTALL: the text after the
\* first header up to the first stop after it, or to the end.
regex_section(text, header, stops) ==
    LET h == FirstOf(text, {header}, 1)
        s == FirstOf(text, stops, h + 1)
    IN  IF h = 0 THEN <<>>
        ELSE _clean_markdown_formatting(
                 strip(SubSeq(text, h + 1, IF s = 0 THEN Len(text) ELSE s - 1)))

NoSections == [AboutEstate |-> <<>>, Positives |-> <<>>, Evaluation |-> <<>>]

\* response_text.split('\n'), each line stripped, the empty lines skipped.
RECURSIVE split_lines(_)
split_lines(text) ==
    LET n == FirstOf(text, {NL}, 1)
    IN  IF text = <<>> THEN <<>>
        ELSE IF n = 0 THEN <<text>>
        ELSE IF n = 1 THEN split_lines(Tail(text))
        ELSE <<SubSeq(text, 1, n - 1)>> \o split_lines(SubSeq(text, n + 1, Len(text)))

\* One line of the loop of _alternative_response_parsing.  st: result,
\* current_section ("" for None) and current_content.
scan_line(st, line) ==
    LET has(toks) == \E i \in 1..Len(line) : line[i] \in toks
        section == IF has({Eiendom}) THEN "AboutEstate"
                   ELSE IF has({PositiveTing}) THEN "Positives"
                   ELSE IF has({KortVurdering, Konklusjon}) THEN "Evaluation"
                   ELSE ""
        colon == FirstOf(line, {Eiendom, PositiveTing, KortVurdering, Konklusjon}, 1)
        flushed == IF st.current_section # "" /\ st.current_content # <<>>
                   THEN [st.result EXCEPT ![st.current_section] = st.current_content]
                   ELSE st.result
    IN  IF section # ""
        THEN [result |-> flushed, current_section |-> section,
              current_content |-> SubSeq(line, colon + 1, Len(line))]
        ELSE IF st.current_section # ""
        THEN [st EXCEPT !.current_content = @ \o line]
        ELSE IF st.result.AboutEstate = <<>>
        THEN [st EXCEPT !.current_section = "AboutEstate", !.current_content = @ \o line]
        ELSE st

RECURSIVE scan_lines(_, _)
scan_lines(st, lines) ==
    IF lines = <<>> THEN st ELSE scan_lines(scan_line(st, Head(lines)), Tail(lines))

\* _alternative_response_parsing: the line scanner.
_alternative_response_parsing(response_text) ==
    LET st == scan_lines([result |-> NoSections, current_section |-> "",
                          current_content |-> <<>>], split_lines(response_text))
        result == IF st.current_section # "" /\ st.current_content # <<>>
                  THEN [st.result EXCEPT ![st.current_section] = st.current_content]
                  ELSE st.result
    IN  [key \in DOMAIN result |-> _clean_markdown_formatting(result[key])]

\* result[key][:1987] + "..." for a field of more than 1990 characters: the
\* cut falls into the first long word.
truncate(field) ==
    IF TextLen(field) > 1990
    THEN SubSeq(field, 1, FirstOf(field, {LongWord}, 1) - 1) \o <<CutLongWord>>
    ELSE field

\* A faulty variant of _parse_openai_response: an empty field stays empty.
_parse_openai_response_without_placeholder(response_text) ==
    LET clean_text == strip(response_text)
        by_regex ==
            [AboutEstate |-> regex_section(clean_text, Eiendom, {PositiveTing}),
             Positives |-> regex_section(clean_text, PositiveTing, {KortVurdering}),
             Evaluation |-> regex_section(clean_text, KortVurdering, {})]
        result == IF \A key \in DOMAIN by_regex : by_regex[key] = <<>>
                  THEN _alternative_response_parsing(clean_text)
                  ELSE by_regex
    IN  [key \in DOMAIN result |-> truncate(result[key])]

\* _parse_openai_response: the three patterns, the line scanner when they
\* extract nothing, the placeholder for an empty field, the cut to the
\* column's length.
_parse_openai_response(response_text) ==
    LET clean_text == strip(response_text)
        by_regex ==
            [AboutEstate |-> regex_section(clean_text, Eiendom, {PositiveTing}),
             Positives |-> regex_section(clean_text, PositiveTing, {KortVurdering}),
             Evaluation |-> regex_section(clean_text, KortVurdering, {})]
        result == IF \A key \in DOMAIN by_regex : by_regex[key] = <<>>
                  THEN _alternative_response_parsing(clean_text)
                  ELSE by_regex
        filled == [key \in DOMAIN result |->
                      IF result[key] = <<>> THEN <<Placeholder>> ELSE result[key]]
    IN  [key \in DOMAIN filled |-> truncate(filled[key])]

\* The responses of the model: response.choices[0].message.content.strip().
RECURSIVE TokenSeqs(_)
TokenSeqs(n) ==
    IF n = 0 THEN {<<>>}
    ELSE LET shorter == TokenSeqs(n - 1)
         IN  shorter \cup {Append(s, tok) : s \in {x \in shorter : Len(x) = n - 1}, tok \in Tokens}

Responses == {text \in TokenSeqs(MaxTokens) : strip(text) = text}

NoResponse == [pc |-> "idle", response_text |-> <<>>, parsed_response |-> NoSections]

\* call_openai_api hands the response to the parser.
ParseResponse ==
    /\ reply.pc = "received"
    /\ reply' = [reply EXCEPT !.pc = "parsed",
                            !.parsed_response = _parse_openai_response(reply.response_text)]
    /\ UNCHANGED notParse

ParseIdle == reply = NoResponse

ParseNext == ParseResponse

(***************************************************************************)
(* Part VI: the text cleaner (src/src/services/text_cleaner.py)             *)
(***************************************************************************)
\* A text is a sequence of lines, joined by line breaks.  The lines of the
\* model: an empty line, a page number, lines of 2 and 4 characters, a line
\* with a lower-case letter before a capital, lines of 10 and 25 characters.
BlankLine == ""
PageLine == "12"
ShortLine == "ab"
FourLine == "abcd"
CamelLine == "abCd"
TenLine == "Energi: A."
LongLine == "Oppvarmingskarakter: gul."
Lines == {BlankLine, PageLine, ShortLine, FourLine, CamelLine, TenLine, LongLine}

\* ---- bounds of the model ----
MaxLines == 3               \* lines of an extracted text

min_text_length == 10       \* shortest extracted text that is cleaned
min_cleaned_length == 5     \* shortest cleaned text that is saved
min_block_length == 20      \* a content block has more characters than this

\* The column extracted_text is NULL.
NullText == <<NULL>>

\* len(line)
LineLen(line) ==
    CASE line = BlankLine -> 0
      [] line = PageLine -> 2
      [] line = ShortLine -> 2
      [] line = FourLine -> 4
      [] line = CamelLine -> 4
      [] line = "ab Cd" -> 5
      [] line = TenLine -> 10
      [] line = LongLine -> 25

\* len(text): the lines and the line breaks between them.
RECURSIVE CharCount(_)
CharCount(text) ==
    IF text = <<>> THEN 0
    ELSE IF Len(text) = 1 THEN LineLen(text[1])
    ELSE LineLen(text[1]) + 1 + CharCount(Tail(text))

\* text.strip(): the empty lines at both ends go.
RECURSIVE strip_text(_)
strip_text(text) ==
    IF text = <<>> THEN <<>>
    ELSE IF Head(text) = BlankLine THEN strip_text(Tail(text))
    ELSE IF text[Len(text)] = BlankLine THEN strip_text(SubSeq(text, 1, Len(text) - 1))
    ELSE text

\* A line that one of unwanted_patterns or header_footer_patterns matches.
IsArtifact(line) == line = PageLine

\* _clean_line: a blank goes between a lower-case letter and a capital.
_clean_line(line) == IF line = CamelLine THEN "ab Cd" ELSE line

\* The loop of clean_text over the lines.
RECURSIVE cleaned_lines(_, _, _)
cleaned_lines(text, min_line_length, preserve_structure) ==
    IF text = <<>> THEN <<>>
    ELSE LET line == Head(text)
             rest == cleaned_lines(Tail(text), min_line_length, preserve_structure)
         IN  IF line = BlankLine
             THEN (IF preserve_structure THEN <<BlankLine>> ELSE <<>>) \o rest
             ELSE IF IsArtifact(line) THEN rest
             ELSE IF LineLen(_clean_line(line)) < min_line_length THEN rest
             ELSE <<_clean_line(line)>> \o rest

\* _remove_extra_whitespace: a run of empty lines becomes one empty line.
RECURSIVE _remove_extra_whitespace(_)
_remove_extra_whitespace(text) ==
    IF Len(text) < 2 THEN text
    ELSE IF text[1] = BlankLine /\ text[2] = BlankLine
    THEN _remove_extra_whitespace(Tail(text))
    ELSE <<Head(text)>> \o _remove_extra_whitespace(Tail(text))

\* PDFTextCleaner.clean_text
clean_text(text, min_line_length, preserve_structure) ==
    strip_text(_remove_extra_whitespace(
        cleaned_lines(text, min_line_length, preserve_structure)))

\* remove_duplicate_lines: a line equal to one of the ten lines kept before
\* it goes (no two different lines of the model are similar).
RECURSIVE unique_lines(_, _)
unique_lines(kept, text) ==
    IF text = <<>> THEN kept
    ELSE LET line == Head(text)
             last == SubSeq(kept, IF Len(kept) > 10 THEN Len(kept) - 9 ELSE 1, Len(kept))
             is_duplicate == line # BlankLine /\ \E i \in 1..Len(last) : last[i] = line
         IN  unique_lines(IF is_duplicate THEN kept ELSE Append(kept, line), Tail(text))

remove_duplicate_lines(text) == unique_lines(<<>>, text)

\* extract_content_blocks and the join of the blocks: the paragraphs of more
\* than 20 characters, an empty line between them.
RECURSIVE content_blocks(_)
content_blocks(text) ==
    LET n == FirstOf(text, {BlankLine}, 1)
        block == strip_text(IF n = 0 THEN text ELSE SubSeq(text, 1, n - 1))
        rest == IF n = 0 THEN <<>> ELSE content_blocks(SubSeq(text, n + 1, Len(text)))
    IN  IF text = <<>> THEN <<>>
        ELSE IF CharCount(block) > min_block_length
        THEN (IF rest = <<>> THEN block ELSE block \o <<BlankLine>> \o rest)
        ELSE rest

\* The text clean_single_text would save.
cleaned_text_of(extracted_text, aggressive_cleaning) ==
    LET basic == clean_text(extracted_text, IF aggressive_cleaning THEN 10 ELSE 3,
                            ~aggressive_cleaning)
    IN  IF aggressive_cleaning
        THEN content_blocks(remove_duplicate_lines(IF basic = <<>> THEN <<BlankLine>> ELSE basic))
        ELSE basic

\* save_cleaned_text and save_cleaned_text_multiprocess: one INSERT; False
\* and no row when it raises.
save_cleaned_text(rows, file_id, cleaned_text, saveOk) ==
    IF saveOk
    THEN [rows |-> Append(rows, [file_id |-> file_id, clean_text |-> cleaned_text,
                                 character_count |-> CharCount(cleaned_text)]),
          ok |-> TRUE]
    ELSE [rows |-> rows, ok |-> FALSE]

\* A faulty variant of clean_single_text: the cleaned text is saved whatever
\* its length.
clean_single_text_saves_short(rows, record, aggressive_cleaning, saveOk) ==
    IF \/ record.extracted_text = NullText
       \/ CharCount(strip_text(record.extracted_text)) < min_text_length
    THEN [rows |-> rows, success |-> FALSE]
    ELSE LET cleaned_text == cleaned_text_of(record.extracted_text, aggressive_cleaning)
             saved == save_cleaned_text(rows, record.file_id, cleaned_text, saveOk)
         IN  [rows |-> saved.rows, success |-> saved.ok]

\* clean_single_text, and word for word clean_single_text_multiprocess.
clean_single_text(rows, record, aggressive_cleaning, saveOk) ==
    IF \/ record.extracted_text = NullText
       \/ CharCount(strip_text(record.extracted_text)) < min_text_length
    THEN [rows |-> rows, success |-> FALSE]
    ELSE LET cleaned_text == cleaned_text_of(record.extracted_text, aggressive_cleaning)
             saved == save_cleaned_text(rows, record.file_id, cleaned_text, saveOk)
         IN  IF CharCount(strip_text(cleaned_text)) < min_cleaned_length
             THEN [rows |-> rows, success |-> FALSE]
             ELSE [rows |-> saved.rows, success |-> saved.ok]

\* The extracted texts: NULL, or up to MaxLines lines.
RECURSIVE LineSeqs(_)
LineSeqs(n) ==
    IF n = 0 THEN {<<>>}
    ELSE LET shorter == LineSeqs(n - 1)
         IN  shorter \cup {Append(s, line) : s \in {x \in shorter : Len(x) = n - 1}, line \in Lines}

ExtractedTexts == {NullText} \cup (LineSeqs(MaxLines) \ {<<>>})

NoCleaning ==
    [pc |-> "idle", multiprocess |-> FALSE, aggressive_cleaning |-> FALSE,
     record |-> [file_id |-> 1, extracted_text |-> NullText], success |-> FALSE]

\* process_batch_single_thread hands a record to clean_single_text.
CleanSingleText ==
    /\ cln.pc = "received"
    /\ ~cln.multiprocess
    /\ \E saveOk \in BOOLEAN :
        LET out == clean_single_text(clean_rows, cln.record, cln.aggressive_cleaning, saveOk)
        IN  /\ clean_rows' = out.rows
            /\ cln' = [cln EXCEPT !.pc = "returned", !.success = out.success]
    /\ UNCHANGED notClean

\* A worker of the pool runs clean_single_text_multiprocess on a record.
CleanSingleTextMultiprocess ==
    /\ cln.pc = "received"
    /\ cln.multiprocess
    /\ \E saveOk \in BOOLEAN :
        LET out == clean_single_text(clean_rows, cln.record, cln.aggressive_cleaning, saveOk)
        IN  /\ clean_rows' = out.rows
            /\ cln' = [cln EXCEPT !.pc = "returned", !.success = out.success]
    /\ UNCHANGED notClean

CleanIdle ==
    /\ clean_rows = <<>>
    /\ cln = NoCleaning

CleanNext ==
    \/ CleanSingleText
    \/ CleanSingleTextMultiprocess

(***************************************************************************)
(* Part VII: the text extraction (src/src/services/pdf_processor.py)        *)
(***************************************************************************)
max_size == 52428800        \* 50 * 1024 * 1024 bytes

\* ---- bounds of the model ----
MaxExtractRows == 2         \* rows of the extraction log

\* Sizes of a PDF file: small, at the limit, above it.
PdfSizes == {1000, max_size, max_size + 1}

\* What export_to_text gives: None, the empty text, texts of 4, 10 and 25
\* characters.
PdfTexts == {NullText, <<BlankLine>>, <<FourLine>>, <<TenLine>>, <<LongLine>>}

\* log_extraction_result and log_extraction_to_db_multiprocess: one INSERT
\* into the extraction log; False and no row when it raises.
log_extraction_result(rows, file_id, extracted_text, status, error_message, logOk) ==
    LET ok == status = "SUCCESS" /\ extracted_text \notin {NullText, <<BlankLine>>}
        row == [file_id |-> file_id,
                extracted_text |->
                    IF ok THEN extracted_text
                    ELSE IF error_message # ""
                    THEN <<"EXTRACTION FAILED: " \o error_message>>
                    ELSE <<"EXTRACTION FAILED">>,
                extraction_status |-> IF ok THEN status ELSE "FAILED",
                character_count |-> IF ok THEN CharCount(extracted_text) ELSE 0]
    IN  IF logOk THEN [rows |-> Append(rows, row), ok |-> TRUE]
        ELSE [rows |-> rows, ok |-> FALSE]

\* The status extract_text_from_pdf hands to log_extraction_result, with
\* the error message and the text.
ExtractionOutcome(exists, file_size, docling, converts, text) ==
    IF ~exists
    THEN [status |-> "FILE_NOT_FOUND", error_message |-> "File not found", text |-> NullText]
    ELSE IF file_size > max_size
    THEN [status |-> "FILE_TOO_LARGE", error_message |-> "File too large", text |-> NullText]
    ELSE IF ~docling
    THEN [status |-> "DOCLING_NOT_AVAILABLE", error_message |-> "Docling not available",
          text |-> NullText]
    ELSE IF ~converts
    THEN [status |-> "EXTRACTION_ERROR", error_message |-> "Text extraction failed",
          text |-> NullText]
    ELSE IF text = NullText \/ CharCount(strip_text(text)) < min_text_length
    THEN [status |-> "SUCCESS_LOW_CONTENT", error_message |-> "Extracted text too short",
          text |-> IF text = NullText THEN <<BlankLine>> ELSE text]
    ELSE [status |-> "SUCCESS", error_message |-> "", text |-> text]

NoExtraction ==
    [pc |-> "idle", file_id |-> 0, status |-> "", text |-> NullText,
     logged |-> FALSE, success |-> FALSE]

\* PDFTextProcessor.extract_text_from_pdf on one file of the batch.
ExtractTextFromPdf ==
    /\ ext.pc = "idle"
    /\ Len(extract_rows) < MaxExtractRows
    /\ \E file_id \in FileIds, exists \in BOOLEAN, file_size \in PdfSizes,
          docling \in BOOLEAN, converts \in BOOLEAN, text \in PdfTexts, logOk \in BOOLEAN :
        LET outcome == ExtractionOutcome(exists, file_size, docling, converts, text)
            logged == log_extraction_result(extract_rows, file_id, outcome.text,
                                         outcome.status, outcome.error_message, logOk)
        IN  /\ extract_rows' = logged.rows
            /\ ext' = [pc |-> "returned", file_id |-> file_id,
                       status |-> outcome.status, text |-> outcome.text,
                       logged |-> logged.ok,
                       success |-> CASE outcome.status = "SUCCESS_LOW_CONTENT" -> TRUE
                                     [] outcome.status = "SUCCESS" -> logged.ok
                                     [] OTHER -> FALSE]
    /\ UNCHANGED notExtract

\* The loop of process_batch_single_thread goes to the next file.
NextPdf ==
    /\ ext.pc = "returned"
    /\ ext' = NoExtraction
    /\ UNCHANGED extract_rows
    /\ UNCHANGED notExtract

ExtractIdle ==
    /\ extract_rows = <<>>
    /\ ext = NoExtraction

ExtractNext ==
    \/ ExtractTextFromPdf
    \/ NextPdf

(***************************************************************************)
(* Part VIII: the yearly CSV download (src/src/services/file_downloader.py *)
(* and the download command of src/main.py)                                *)
(***************************************************************************)
Years == {2023, 2024}

\* What the metadata endpoint and the file URL answer.
HttpStatuses == {200, 404, 429, 500}

\* Sizes of the CSV content behind the file URL.
CsvSizes == {100, 200}

\* ---- bounds of the model ----
MaxCommands == 2            \* download commands in a behaviour

NoYearFiles == [y \in Years |-> 0]

NoYearResult ==
    [success |-> FALSE, downloaded |-> FALSE, file_size |-> 0, status_code |-> 0,
     error |-> ""]

\* A faulty variant of download_year_data: the file is fetched whether or not
\* it is there already.
download_year_data_always_downloads(disk_files, year, force_download, first, second, has_url, csv_status, content) ==
    LET status == IF first = 429 THEN second ELSE first
        api_calls == IF first = 429 THEN 2 ELSE 1
        failed(error, status_code, file_requests) ==
            [csv_files |-> disk_files, api_calls |-> api_calls,
             file_requests |-> file_requests,
             result |-> [NoYearResult EXCEPT !.error = error, !.status_code = status_code]]
    IN  IF status = 404 THEN failed("No data available for year", 404, 0)
        ELSE IF status # 200 THEN failed("HTTP request failed", 0, 0)
        ELSE IF ~has_url THEN failed("No bankFileUrl found in API response", 0, 0)
        ELSE IF csv_status # 200 THEN failed("HTTP request failed", 0, 1)
        ELSE [csv_files |-> [disk_files EXCEPT ![year] = content],
              api_calls |-> api_calls, file_requests |-> 1,
              result |-> [NoYearResult EXCEPT !.success = TRUE, !.downloaded = TRUE,
                                              !.file_size = content]]

\* FileDownloader.download_year_data.  first and second are the answers of
\* the metadata endpoint (the second one is asked for after a 429), has_url
\* says whether the answer names a bankFileUrl, csv_status and content are
\* the answer of the file URL.
download_year_data(disk_files, year, force_download, first, second, has_url, csv_status, content) ==
    LET status == IF first = 429 THEN second ELSE first
        api_calls == IF first = 429 THEN 2 ELSE 1
        failed(error, status_code, file_requests) ==
            [csv_files |-> disk_files, api_calls |-> api_calls,
             file_requests |-> file_requests,
             result |-> [NoYearResult EXCEPT !.error = error, !.status_code = status_code]]
    IN  IF status = 404 THEN failed("No data available for year", 404, 0)
        ELSE IF status # 200 THEN failed("HTTP request failed", 0, 0)
        ELSE IF ~has_url THEN failed("No bankFileUrl found in API response", 0, 0)
        ELSE IF disk_files[year] > 0 /\ ~force_download
        THEN [csv_files |-> disk_files, api_calls |-> api_calls, file_requests |-> 0,
              result |-> [NoYearResult EXCEPT !.success = TRUE,
                                              !.file_size = disk_files[year]]]
        ELSE IF csv_status # 200 THEN failed("HTTP request failed", 0, 1)
        ELSE [csv_files |-> [disk_files EXCEPT ![year] = content],
              api_calls |-> api_calls, file_requests |-> 1,
              result |-> [NoYearResult EXCEPT !.success = TRUE, !.downloaded = TRUE,
                                              !.file_size = content]]

\* The years of a command: one year, or the range of both.
CommandYears == {<<2023>>, <<2024>>, <<2023, 2024>>}

NoCommand ==
    [pc |-> "idle", commands |-> 0, years |-> <<>>, force |-> FALSE, i |-> 0,
     success_count |-> 0, saw_404 |-> FALSE, other_failure |-> FALSE,
     status |-> 0, has_url |-> FALSE, file_requests |-> 0,
     result |-> NoYearResult, exit_code |-> 0]

\* main: the download command with year, --end-year and --force.
StartDownloadCommand ==
    /\ fd.pc = "idle"
    /\ fd.commands < MaxCommands
    /\ \E years \in CommandYears, force \in BOOLEAN :
        fd' = [NoCommand EXCEPT !.pc = "running", !.commands = fd.commands + 1,
                                !.years = years, !.force = force, !.i = 1]
    /\ UNCHANGED csv_files
    /\ UNCHANGED notYear

\* download_year_data of main.py for the next year of the command.
DownloadYearData ==
    /\ fd.pc = "running"
    /\ fd.i <= Len(fd.years)
    /\ \E first \in HttpStatuses, second \in HttpStatuses, has_url \in BOOLEAN,
          csv_status \in HttpStatuses \ {429}, content \in CsvSizes :
        LET out == download_year_data(csv_files, fd.years[fd.i], fd.force, first, second,
                                      has_url, csv_status, content)
        IN  /\ csv_files' = out.csv_files
            /\ fd' = [fd EXCEPT
                        !.i = fd.i + 1,
                        !.success_count = fd.success_count + (IF out.result.success THEN 1 ELSE 0),
                        !.saw_404 = fd.saw_404 \/ out.result.status_code = 404,
                        !.other_failure = fd.other_failure
                                          \/ (~out.result.success /\ out.result.status_code # 404),
                        !.status = IF first = 429 THEN second ELSE first,
                        !.has_url = has_url,
                        !.file_requests = out.file_requests,
                        !.result = out.result]
    /\ UNCHANGED notYear

\* main: the exit code of the command.
ReturnDownloadCommand ==
    /\ fd.pc = "running"
    /\ fd.i > Len(fd.years)
    /\ fd' = [fd EXCEPT !.pc = "done",
                        !.exit_code = IF fd.success_count = Len(fd.years) THEN 0 ELSE 1]
    /\ UNCHANGED csv_files
    /\ UNCHANGED notYear

\* The next command is typed.
NextCommand ==
    /\ fd.pc = "done"
    /\ fd' = [NoCommand EXCEPT !.commands = fd.commands]
    /\ UNCHANGED csv_files
    /\ UNCHANGED notYear

YearIdle ==
    /\ csv_files = NoYearFiles
    /\ fd = NoCommand

YearNext ==
    \/ StartDownloadCommand
    \/ DownloadYearData
    \/ ReturnDownloadCommand
    \/ NextCommand

(***************************************************************************)
(* Part IX: the database-backed subcommands of src/main.py                 *)
(***************************************************************************)
Subcommands == {"api", "scan-pdf", "process-pdf", "clean-text", "openai"}

\* ---- bounds of the model ----
MaxItems == 2               \* rows or files a subcommand finds

NoSummary ==
    [success |-> FALSE, message |-> "", processed |-> 0, successful |-> 0]

\* EnovaApiClient.process_certificates: cleanup_old_pending_records swallows
\* the connection error, get_api_parameters raises it, the outer except
\* answers.
process_certificates(db, n) ==
    IF ~db THEN [NoSummary EXCEPT !.message = "Processing failed"]
    ELSE IF n = 0 THEN [NoSummary EXCEPT !.message = "No parameters found"]
    ELSE [NoSummary EXCEPT !.success = TRUE, !.processed = n]

\* PDFFileScanner.scan_and_populate over n files of which k are indexed:
\* cleanup_deleted_files, get_existing_files and insert_file_batch each
\* swallow the connection error and give 0, the empty set, 0.
scan_and_populate(db, n, k) ==
    LET existing == IF db THEN k ELSE 0
        to_insert == n - existing
    IN  [NoSummary EXCEPT !.success = TRUE, !.processed = n,
                          !.successful = IF db THEN to_insert ELSE 0]

\* process_batch_single_thread and process_pdfs_multiprocess of
\* pdf_processor.py: get_pdf_files_to_process gives [] on a connection error.
process_pdf_batch(db, n, k) ==
    LET files_to_process == IF db THEN n ELSE 0
    IN  IF files_to_process = 0
        THEN [NoSummary EXCEPT !.success = TRUE, !.message = "No files to process"]
        ELSE [NoSummary EXCEPT !.success = TRUE, !.processed = n, !.successful = k]

\* process_batch_single_thread and process_text_cleaning_multiprocess of
\* text_cleaner.py: get_text_to_clean gives [] on a connection error.
clean_text_batch(db, n, k) ==
    LET records_to_process == IF db THEN n ELSE 0
    IN  IF records_to_process = 0
        THEN [NoSummary EXCEPT !.success = TRUE, !.message = "No records to process"]
        ELSE [NoSummary EXCEPT !.success = TRUE, !.processed = n, !.successful = k]

\* OpenAIEnergyService.process_prompts: get_prompts_data raises the
\* connection error, the outer except answers.
process_prompts(db, n, k) ==
    IF ~db THEN [NoSummary EXCEPT !.message = "Processing failed"]
    ELSE IF n = 0
    THEN [NoSummary EXCEPT !.success = TRUE, !.message = "No prompts found for processing"]
    ELSE [NoSummary EXCEPT !.success = TRUE, !.processed = n, !.successful = k]

NoSubcommand ==
    [pc |-> "idle", command |-> "", db |-> TRUE, docling |-> TRUE,
     multiprocess |-> FALSE, result |-> NoSummary, reported_success |-> FALSE,
     exit_code |-> 0]

\* main parses a subcommand; the database can be reached or not for the
\* whole run.
StartSubcommand ==
    /\ cli.pc = "idle"
    /\ \E command \in Subcommands, db \in BOOLEAN, docling \in BOOLEAN,
          multiprocess \in BOOLEAN :
        /\ command # "process-pdf" => docling
        /\ command \notin {"process-pdf", "clean-text"} => ~multiprocess
        /\ cli' = [NoSubcommand EXCEPT !.pc = "running", !.command = command, !.db = db,
                                      !.docling = docling, !.multiprocess = multiprocess]
    /\ UNCHANGED notCli

\* The function of main.py for the subcommand prints the outcome and returns
\* result['success'].
Ran(result) ==
    cli' = [cli EXCEPT !.pc = "returned", !.result = result,
                       !.reported_success = result.success]

\* process_api_certificates
ProcessApiCertificates ==
    /\ cli.pc = "running" /\ cli.command = "api"
    /\ \E n \in 0..MaxItems : Ran(process_certificates(cli.db, n))
    /\ UNCHANGED notCli

\* scan_pdf_files
ScanPdfFiles ==
    /\ cli.pc = "running" /\ cli.command = "scan-pdf"
    /\ \E n \in 0..MaxItems : \E k \in 0..n : Ran(scan_and_populate(cli.db, n, k))
    /\ UNCHANGED notCli

\* process_pdf_text
ProcessPdfText ==
    /\ cli.pc = "running" /\ cli.command = "process-pdf"
    /\ \E n \in 0..MaxItems : \E k \in 0..n :
        Ran(IF ~cli.docling THEN [NoSummary EXCEPT !.message = "Docling not installed"]
            ELSE process_pdf_batch(cli.db, n, k))
    /\ UNCHANGED notCli

\* clean_pdf_text
CleanPdfText ==
    /\ cli.pc = "running" /\ cli.command = "clean-text"
    /\ \E n \in 0..MaxItems : \E k \in 0..n : Ran(clean_text_batch(cli.db, n, k))
    /\ UNCHANGED notCli

\* process_openai_prompts
ProcessOpenaiPrompts ==
    /\ cli.pc = "running" /\ cli.command = "openai"
    /\ \E n \in 0..MaxItems : \E k \in 0..n : Ran(process_prompts(cli.db, n, k))
    /\ UNCHANGED notCli

\* main: return 0 if success else 1.
ExitSubcommand ==
    /\ cli.pc = "returned"
    /\ cli' = [cli EXCEPT !.pc = "exited",
                          !.exit_code = IF cli.reported_success THEN 0 ELSE 1]
    /\ UNCHANGED notCli

\* The next subcommand is typed.
NextSubcommand ==
    /\ cli.pc = "exited"
    /\ cli' = NoSubcommand
    /\ UNCHANGED notCli

CliIdle == cli = NoSubcommand

CliNext ==
    \/ StartSubcommand
    \/ ProcessApiCertificates
    \/ ScanPdfFiles
    \/ ProcessPdfText
    \/ CleanPdfText
    \/ ProcessOpenaiPrompts
    \/ ExitSubcommand
    \/ NextSubcommand

(***************************************************************************)
(* Part X: the orchestration script (src/scripts/run_full_pipeline.py)     *)
(***************************************************************************)
\* The components of the pipeline, in data-flow order.
PipelineComponents ==
    <<"csv_download", "csv_import", "detail_api", "pdf_download", "pdf_scan",
      "text_extraction", "text_cleaning", "llm_summarization">>

\* What a service call of a step does: it returns a summary that says
\* success, one that says failure, or it raises.
ServiceOutcomes == {"success", "failure", "raises"}

NoPipeline ==
    [pc |-> "idle", invoked |-> <<>>, results |-> <<>>, walked |-> 0]

\* A step of the pipeline: the service call made (none when the method does
\* not exist) and the entry of self.results.
Step(from, to, component, success) ==
    /\ pipe.pc = from
    /\ pipe' = [pipe EXCEPT !.pc = to,
                            !.invoked = IF component = "" THEN @ ELSE Append(@, component),
                            !.results = Append(@, success)]
    /\ UNCHANGED notPipeline

\* main of the script builds FullPipeline and calls run_pipeline.
RunPipeline ==
    /\ pipe.pc = "idle"
    /\ pipe' = [NoPipeline EXCEPT !.pc = "download_csv"]
    /\ UNCHANGED notPipeline

\* _step_download_csv: FileDownloader.download_year_data
_step_download_csv ==
    \E outcome \in ServiceOutcomes :
        Step("download_csv", "api_processing", "csv_download", outcome = "success")

\* _step_api_processing: EnovaApiClient.process_certificates
_step_api_processing ==
    \E outcome \in ServiceOutcomes :
        Step("api_processing", "pdf_download", "detail_api", outcome = "success")

\* _step_pdf_download: PDFDownloader.download_pdfs
_step_pdf_download ==
    \E outcome \in ServiceOutcomes :
        Step("pdf_download", "pdf_scan", "pdf_download", outcome = "success")

\* _step_pdf_scan: PDFFileScanner.scan_pdf_directory walks the directory and
\* returns the list of files; result['success'] on a list raises, the step
\* records a failure, and no row of the index is written.
_step_pdf_scan ==
    /\ pipe.pc = "pdf_scan"
    /\ \E n \in 0..MaxItems :
        pipe' = [pipe EXCEPT !.pc = "pdf_processing", !.walked = n,
                             !.invoked = Append(@, "pdf_directory_walk"),
                             !.results = Append(@, FALSE)]
    /\ UNCHANGED notPipeline

\* _step_pdf_processing: PDFTextProcessor has no method process_pdfs; the
\* AttributeError is caught and recorded.
_step_pdf_processing ==
    Step("pdf_processing", "text_cleaning", "", FALSE)

\* _step_text_cleaning: TextCleaningProcessor has no method
\* clean_text_records; the AttributeError is caught and recorded.
_step_text_cleaning ==
    Step("text_cleaning", "openai_analysis", "", FALSE)

\* _step_openai_analysis: OpenAIEnergyService.process_prompts, and the
\* final summary.
_step_openai_analysis ==
    \E outcome \in ServiceOutcomes :
        Step("openai_analysis", "done", "llm_summarization", outcome = "success")

\* The script is started again.
NextPipeline ==
    /\ pipe.pc = "done"
    /\ pipe' = NoPipeline
    /\ UNCHANGED notPipeline

PipelineIdle == pipe = NoPipeline

PipelineNext ==
    \/ RunPipeline
    \/ _step_download_csv
    \/ _step_api_processing
    \/ _step_pdf_download
    \/ _step_pdf_scan
    \/ _step_pdf_processing
    \/ _step_text_cleaning
    \/ _step_openai_analysis
    \/ NextPipeline

\* The parts added after the LLM service are idle.
RestIdle == CleanIdle /\ ExtractIdle /\ YearIdle /\ CliIdle /\ PipelineIdle

ApiIdle ==
    /\ log = <<>>
    /\ url = [c \in Certs |-> 0]
    /\ clock = 0
    /\ api = IdleApi

ImportIdle ==
    /\ store = EmptyStore
    /\ imp = [p \in {1} |-> IdleRun]

AllIdle ==
    /\ ImportIdle /\ ApiIdle /\ DownloadIdle /\ ScanIdle /\ OpenaiIdle /\ ParseIdle
    /\ RestIdle

ImportInit == AllIdle

ImportSpec == ImportInit /\ [][ImportNext]_vars

RaceInit ==
    /\ store = EmptyStore
    /\ imp = [p \in Runs |-> IdleRun]
    /\ ApiIdle /\ DownloadIdle /\ ScanIdle /\ OpenaiIdle /\ ParseIdle /\ RestIdle

RaceSpec == RaceInit /\ [][RaceNext]_vars

ApiInit == AllIdle

ApiNext ==
    \/ StartProcess
    \/ LogParameters
    \/ CallApi
    \/ RecordOutcome
    \/ Interrupt
    \/ ReturnApi
    \/ Tick

ApiSpec == ApiInit /\ [][ApiNext]_vars

\* The log table under the two commands that write it, process_certificates
\* and cleanup.  The detail table is left as it is: the runs are those whose
\* saves store no new row, which takes the status Success out of the log and
\* nothing else.
LogNext ==
    \/ StartProcess
    \/ LogParameters
    \/ CallApi
    \/ RecordOutcomeUnsaved
    \/ Interrupt
    \/ ReturnApi
    \/ Tick
    \/ CleanupPendingRecords

LogSpec == ApiInit /\ [][LogNext]_vars

DownloadInit == AllIdle

DownloadSpec == DownloadInit /\ [][DownloadNext]_vars

ScanInit == AllIdle

ScanSpec == ScanInit /\ [][ScanNext]_vars

ScenarioInit ==
    /\ ImportIdle /\ ApiIdle /\ DownloadIdle /\ OpenaiIdle /\ ParseIdle
    /\ RestIdle
    /\ disk = ScenarioDisk
    /\ index = ScenarioIndex
    /\ scan = IdleScan

ScenarioSpec == ScenarioInit /\ [][ScenarioNext]_vars

OpenaiInit == AllIdle

OpenaiSpec == OpenaiInit /\ [][OpenaiNext]_vars

\* The source table holds a prompt of the version for every file id.
ResumeInit ==
    /\ ImportIdle /\ ApiIdle /\ DownloadIdle /\ ScanIdle /\ ParseIdle /\ RestIdle
    /\ \E texts \in [FileIds -> {GoodPrompt, RefusedPrompt}] :
        sample = [f \in FileIds |-> [NoSample[f] EXCEPT ![ResumeVersion] = texts[f]]]
    /\ answers = NoAnswers
    /\ oai = NewOpenAIEnergyService

ResumeSpec == ResumeInit /\ [][ResumeNext]_vars /\ ResumeFairness

ParseInit ==
    /\ ImportIdle /\ ApiIdle /\ DownloadIdle /\ ScanIdle /\ OpenaiIdle
    /\ RestIdle
    /\ \E response_text \in Responses :
        reply = [pc |-> "received", response_text |-> response_text,
                parsed_response |-> NoSections]

ParseSpec == ParseInit /\ [][ParseNext]_vars

CleanInit ==
    /\ ImportIdle /\ ApiIdle /\ DownloadIdle /\ ScanIdle /\ OpenaiIdle /\ ParseIdle
    /\ ExtractIdle /\ YearIdle /\ CliIdle /\ PipelineIdle
    /\ clean_rows = <<>>
    /\ \E extracted_text \in ExtractedTexts, multiprocess \in BOOLEAN,
          aggressive_cleaning \in BOOLEAN :
        cln = [NoCleaning EXCEPT
                  !.pc = "received",
                  !.multiprocess = multiprocess,
                  !.aggressive_cleaning = aggressive_cleaning,
                  !.record = [file_id |-> 1, extracted_text |-> extracted_text]]

CleanSpec == CleanInit /\ [][CleanNext]_vars

ExtractInit == AllIdle

ExtractSpec == ExtractInit /\ [][ExtractNext]_vars

YearInit == AllIdle

YearSpec == YearInit /\ [][YearNext]_vars

CliInit == AllIdle

CliSpec == CliInit /\ [][CliNext]_vars

PipelineInit == AllIdle

PipelineSpec == PipelineInit /\ [][PipelineNext]_vars

(***************************************************************************)
(* Properties of the CSV import (checked under ImportSpec)                 *)
(***************************************************************************)
\* The rows of batch b of a run, and the number of batches of the run.
BatchOf(r, b) == Slice(r.df_to_insert, (b - 1) * r.batch_size, b * r.batch_size)
NumBatches(r) == (Len(r.df_to_insert) + r.batch_size - 1) \div r.batch_size

\* The table a run started from plus the rows of its first n batches that
\* were committed.
RECURSIVE CommittedStore(_, _)
CommittedStore(r, n) ==
    IF n = 0 THEN r.store0
    ELSE LET prev == CommittedStore(r, n - 1)
         IN  IF r.outcomes[n] THEN Commit(prev, BatchOf(r, n)) ELSE prev

FailedBatches(r) == {b \in 1..Len(r.outcomes) : ~r.outcomes[b]}
CommittedBatches(r) == {b \in 1..Len(r.outcomes) : r.outcomes[b]}
RowsIn(r, bs) == SumOver([b \in bs |-> Len(BatchOf(r, b))], bs)

NullKeyed(rows) == SelectSeq(rows, LAMBDA x : x.Attestnummer = NULL)

\* Rows of the frame whose key was in the table when the run began.
RowsAlreadyStored(r) ==
    Len(SelectSeq(r.df, LAMBDA x : x.Attestnummer # NULL /\ r.store0[x.Attestnummer] > 0))

\* C1: with duplicate skipping enabled, a run inserts no row whose
\* Attestnummer was in the staging table when the run began, however often
\* the file is imported again.
C1_ImportIdempotentOnExistingKeys ==
    \A p \in DOMAIN imp :
        LET r == imp[p]
        IN  (r.pc # "idle" /\ r.skip_duplicates) =>
                \A k \in Keys :
                    (r.store0[k] > 0 /\ Count(r.df, k) > 0) => store[k] = r.store0[k]

\* C2: a run with duplicate skipping enabled (and an existence check that did
\* not raise) that starts from a table with at most one row per Attestnummer
\* leaves at most one row per Attestnummer.
C2_AtMostOneRowPerKey ==
    \A p \in DOMAIN imp :
        LET r == imp[p]
        IN  (/\ r.pc # "idle" /\ r.skip_duplicates /\ ~r.check_error
             /\ \A k \in Keys : r.store0[k] <= 1)
            => \A k \in Keys : store[k] <= 1

\* C3: when a batch raises, that batch alone is rolled back, one error
\* message is recorded and its rows are counted as failed; the batches
\* committed before stay committed, the batches after it are attempted, and
\* insert_to_database returns its result.
C3_PartialSuccess ==
    \A p \in DOMAIN imp :
        LET r == imp[p]
        IN  (r.pc \in {"insert", "done"} /\ r.result.kind \in {"none", "insert"}) =>
                /\ store = CommittedStore(r, Len(r.outcomes))
                /\ Len(r.errors) = Cardinality(FailedBatches(r))
                /\ r.failed_rows = RowsIn(r, FailedBatches(r))
                /\ r.inserted_rows = RowsIn(r, CommittedBatches(r))
                /\ (r.pc = "done" /\ FailedBatches(r) # {}) =>
                        /\ Len(r.outcomes) = NumBatches(r)
                        /\ r.result.kind = "insert"
                        /\ r.result.failed_rows = r.failed_rows
                        /\ r.result.inserted_rows = r.inserted_rows
                        /\ Len(r.result.errors) = Cardinality(FailedBatches(r))

\* A finished run whose second of three batches failed.
C3_Witness ==
    \E p \in DOMAIN imp :
        imp[p].pc = "done" /\ imp[p].outcomes = <<TRUE, FALSE, TRUE>>

\* C4: the counts of the result partition the rows read: skipped is the
\* number of rows whose key was already stored, inserted the rows of the
\* committed batches, failed the rows of the failed batches, and the three
\* add up to the rows read.
C4_CountsPartition ==
    \A p \in DOMAIN imp :
        LET r == imp[p]
        IN  (/\ r.pc = "done" /\ r.result.kind = "insert"
             /\ r.skip_duplicates /\ ~r.check_error) =>
                /\ r.result.skipped_rows = RowsAlreadyStored(r)
                /\ r.result.inserted_rows = RowsIn(r, CommittedBatches(r))
                /\ r.result.failed_rows = RowsIn(r, FailedBatches(r))
                /\ r.result.inserted_rows + r.result.skipped_rows
                       + r.result.failed_rows = r.result.total_rows

\* C5: the existence check never excludes a row when the frame has no
\* Attestnummer column, and never a row whose Attestnummer is null.
C5_NoFalsePositiveSkips ==
    \A p \in DOMAIN imp :
        LET r == imp[p]
        IN  (/\ r.skip_duplicates /\ r.pc \in {"insert", "done"}
             /\ r.result.kind # "error") =>
                /\ "Attestnummer" \notin r.columns =>
                        r.df_to_insert = r.df /\ r.skipped_count = 0
                /\ NullKeyed(r.df_to_insert) = NullKeyed(r.df)

\* The check has run on a frame with a null key and a stored key, against a
\* table that holds rows with a null key.
C5_Witness ==
    \E p \in DOMAIN imp :
        LET r == imp[p]
        IN  /\ r.skip_duplicates /\ r.pc = "insert" /\ ~r.check_error
            /\ r.store0[NULL] > 0
            /\ NullKeyed(r.df) # <<>>
            /\ r.skipped_count > 0

\* C6: a file with a recognised header and no data row is imported with
\* success and zero rows inserted, skipped and failed, whatever skip_duplicates.
C6_EmptyCsvSucceeds ==
    \A p \in DOMAIN imp :
        LET r == imp[p]
        IN  (r.pc = "done" /\ r.result.kind = "insert" /\ r.total_processed = 0) =>
                /\ r.result.success
                /\ r.result.inserted_rows = 0
                /\ r.result.skipped_rows = 0
                /\ r.result.failed_rows = 0

\* C7: every column named by an INSERT statement that was sent to the staging
\* table is on the allow-list.
C7_InsertNamesOnlyAllowedColumns ==
    \A p \in DOMAIN imp :
        LET r == imp[p]
        IN  (r.pc \in {"insert", "done"} /\ Len(r.outcomes) > 0) =>
                r.columns \subseteq expected_db_columns

(***************************************************************************)
(* Properties of the detail API client (checked under ApiSpec)             *)
(***************************************************************************)
\* The positions of the log rows a step changed.
ChangedRows == {j \in 1..Len(log) : log'[j] # log[j]}

\* The Pending row that the current batch logged for a certificate.
OwnRow(row, certificate_id) ==
    /\ row.CertificateID = certificate_id
    /\ row.LogDate = api.batch_datetime
    /\ row.status_message = Pending

\* C8: the terminal-status update of a parameter set changes exactly one log
\* row, the Pending row logged for that certificate in the current batch, and
\* no row of another batch.  Stated for the updates that change the log while
\* the batch's own row is there.
C8_UpdateChangesExactlyOwnRow ==
    [][(/\ api.pc = "called"
        /\ log' # log
        /\ \E j \in 1..Len(log) : OwnRow(log[j], api.parameters[api.i]))
       => /\ Len(log') = Len(log)
          /\ ChangedRows = {j \in 1..Len(log) : OwnRow(log[j], api.parameters[api.i])}
          /\ Cardinality(ChangedRows) = 1]_vars

\* C9: when a parameter set has been sent to the endpoint, the log holds a
\* row of the current batch for every parameter set of the batch.
C9_LogBeforeCall ==
    api.pc = "called" =>
        \A j \in 1..Len(api.parameters) :
            \E n \in 1..Len(log) :
                /\ log[n].CertificateID = api.parameters[j]
                /\ log[n].LogDate = api.batch_datetime

\* The statuses that begin with "Error".
ErrorStatuses == {"Error", "Error: save failed"}

\* A parameter set has been processed to its end; answer is what the endpoint
\* had answered to it.
Processed ==
    \/ api.pc = "call" /\ api.i > 1
    \/ api.pc = "done" /\ api.result = "Processing completed successfully"

ProcessedCertificate ==
    IF api.pc = "call" THEN api.parameters[api.i - 1] ELSE api.parameters[api.i]

\* C10: a non-200 answer other than the too-many-results 400, or a failed
\* request, leaves an Error status in the log row of the parameter set; "No
\* records found" is the status only of a 200 answer with zero records.
C10_ErrorClassification ==
    Processed =>
        \A n \in 1..Len(log) :
            (/\ log[n].CertificateID = ProcessedCertificate
             /\ log[n].LogDate = api.batch_datetime
             /\ log[n].status_message # Pending) =>
                /\ api.answer \in {"other status", "transport"} =>
                        log[n].status_message \in ErrorStatuses
                /\ log[n].status_message = "No records found" =>
                        api.answer = "200 empty"

TooMany == "Too many results (25+ eiendommer)"

\* C11: a parameter set answered by the too-many-results 400 saves no detail
\* record, hands records_returned = 0 and the status 'Too many results (25+
\* eiendommer)' to the update, and the update leaves exactly these two values
\* in the row the batch logged for it.
C11_TooManyResults ==
    [][(/\ api.pc = "called"
        /\ api.answer = "400 too many"
        /\ api'.result # "interrupted")
       => /\ url' = url
          /\ api'.status_message = TooMany
          /\ Len(log') = Len(log)
          /\ \A n \in 1..Len(log) :
                OwnRow(log[n], api.parameters[api.i]) =>
                    \/ log'[n] = log[n]
                    \/ log'[n] = [log[n] EXCEPT !.records_returned = <<0>>,
                                                !.status_message = TooMany]]_vars

\* A parameter set answered by the too-many-results 400 has been processed
\* and its log row updated.
C11_Witness ==
    /\ Processed
    /\ api.answer = "400 too many"
    /\ \E n \in 1..Len(log) :
        /\ log[n].CertificateID = ProcessedCertificate
        /\ log[n].LogDate = api.batch_datetime
        /\ log[n].status_message = TooMany
        /\ log[n].records_returned = <<0>>

\* The status values of the spec: Pending and the four terminal kinds.
SpecStatuses ==
    {Pending, "Success", "No records found", TooMany, "Error: save failed"}

\* C12, as stated: the status of every log row is Pending, 'Success', 'No
\* records found', 'Too many results' or an 'Error: ...' message.
C12_StatusesOfSpec ==
    \A n \in 1..Len(log) : log[n].status_message \in SpecStatuses

\* C12, amended: the status of every log row is Pending, 'Success', 'No
\* records found', 'Too many results', an 'Error: ...' message, or 'API
\* returned data but no records saved'.
C12_StatusesOfCode ==
    \A n \in 1..Len(log) :
        log[n].status_message \in
            SpecStatuses \cup {"API returned data but no records saved"}

\* A batch has left a row with a terminal status next to a Pending row.
C12_Witness ==
    \E n, m \in 1..Len(log) :
        /\ log[n].status_message = Pending
        /\ log[m].status_message \in {"Success", "Error: save failed"}

(***************************************************************************)
(* Properties of the PDF downloader (checked under DownloadSpec)           *)
(***************************************************************************)
\* C13: a download_pdf call whose target file exists leaves the directory
\* unchanged, makes no GET request, counts the attempt as skipped and not as
\* failed, returns True and logs it as 'Already Exists' (the log row is
\* missing only when the INSERT of the log itself raises).
C13_ExistingFileSkipped ==
    [][(dl.pc = "loop" /\ files[dl.urls[dl.i]] # Absent)
       => /\ files' = files
          /\ dl'.requests = dl.requests
          /\ dl'.downloads_skipped = dl.downloads_skipped + 1
          /\ dl'.downloads_failed = dl.downloads_failed
          /\ dl'.downloads_successful = dl.downloads_successful
          /\ dl'.success
          /\ \/ dl_log' = dl_log
             \/ dl_log' = Append(dl_log, [filename |-> dl.urls[dl.i],
                                          status |-> "Already Exists"])]_vars

\* A batch has skipped the same existing file twice.
C13_Witness ==
    /\ dl.downloads_skipped = 2
    /\ dl.urls = <<"a.pdf", "a.pdf">>
    /\ dl.requests = 0
    /\ dl_log # <<>>
    /\ dl_log[Len(dl_log)].status = "Already Exists"

\* C14: a body larger than the cap is never in the download directory and
\* never accepted as successful; the attempt is logged as 'File Too Large'.
C14_SizeCap ==
    /\ \A f \in FileNames : files[f] <= max_pdf_size
    /\ dl.body > max_pdf_size => ~dl.success

(***************************************************************************)
(* Properties of the PDF file scanner                                       *)
(***************************************************************************)
IndexedNames(idx) == {p.name : p \in {q \in Paths : idx[q] > 0}}
DiskNames(dsk) == {p.name : p \in dsk}
RowsNamed(idx, n) == SumOver([p \in Paths |-> IF p.name = n THEN idx[p] ELSE 0], Paths)

\* The run is over, cleanup was enabled and did its work, the scan was not
\* forced and every insert succeeded.
CleanScanDone ==
    /\ scan.pc = "done"
    /\ scan.cleanup_deleted /\ ~scan.cleanup_failed
    /\ scan.skip_existing
    /\ scan.refused = {}
    /\ scan.files_added = Len(scan.to_insert)

\* C15: after a run with cleanup enabled and no force in which every insert
\* succeeded, the filenames of the index are the filenames on disk: the stale
\* rows are deleted, every filename that was not indexed has got a row, and
\* no file that was already indexed has got a new row.
C15_IndexEqualsDisk ==
    CleanScanDone =>
        /\ IndexedNames(index) = DiskNames(disk)
        /\ \A p \in Paths \ disk : index[p] = 0
        /\ \A n \in DiskNames(disk) \ IndexedNames(scan.index0) :
               n \in IndexedNames(index)
        /\ \A p \in disk :
               scan.index0[p] > 0 => index[p] = scan.index0[p]

\* The scenario's run is over: cleanup enabled, not forced, and the cleanup,
\* the query of the indexed filenames and every insert succeeded.
ScenarioRunDone ==
    /\ CleanScanDone
    /\ ~scan.existing_failed
    /\ scan.index0 = ScenarioIndex
    /\ disk = ScenarioDisk

C17_OneRowPerFilename ==
    scan.pc \in {"idle", "done"} =>
        \A n \in IndexedNames(index) : RowsNamed(index, n) <= 1

\* C18: when the batched insert of insert_file_batch fails, nothing of it
\* stays and each row is inserted and committed on its own: every row the
\* server takes gets exactly one new row in the index, whatever rows of the
\* batch are refused, and the count returned is the number of rows inserted.
C18_FallbackInsertsEachRow ==
    [][(scan.pc = "insert" /\ scan'.connected /\ scan'.raised) =>
        LET batch == Slice(scan.to_insert, scan.i, scan.i + scan.batch_size)
            accepted == {i \in 1..Len(batch) : batch[i] \notin scan.refused}
        IN  /\ \A p \in Paths :
                   index'[p] = index[p] + Cardinality({i \in accepted : batch[i] = p})
            /\ scan'.files_added - scan.files_added = Cardinality(accepted)
      ]_vars

\* C18 witness: a batch of three rows whose second row was refused has gone
\* through the fallback; the first and the third row are indexed once, the
\* second is not, and 2 is the count returned.
C18_Witness ==
    /\ scan.pc = "done"
    /\ scan.connected /\ scan.raised
    /\ scan.batch_size = 100
    /\ Len(scan.to_insert) = 3
    /\ scan.index0 = EmptyIndex
    /\ scan.refused = {scan.to_insert[2]}
    /\ scan.files_added = 2
    /\ index[scan.to_insert[1]] = 1
    /\ index[scan.to_insert[2]] = 0
    /\ index[scan.to_insert[3]] = 1

(***************************************************************************)
(* Properties of the LLM service                                            *)
(***************************************************************************)
\* get_prompts_data has just returned to process_prompts.
Fetched == oai.pc \in {"loop", "done"} /\ oai.i = 1 /\ oai.success

ReturnedFileIds == {oai.prompts_data[j].file_id : j \in 1..Len(oai.prompts_data)}

HasPrompt(text) == text \notin {NULL, BlankPrompt}

\* C19: a file id with an answer row for the version asked for is never
\* returned by get_prompts_data; a file id with an answer for another
\* version, none for the version asked for and a prompt in its column is
\* returned, unless the rows before it have used up the limit.
C19_ExcludedPerVersion ==
    Fetched =>
        /\ \A f \in FileIds :
               answers[f][oai.prompt_column] > 0 => f \notin ReturnedFileIds
        /\ \A f \in FileIds :
               (/\ answers[f][oai.prompt_column] = 0
                /\ HasPrompt(sample[f][oai.prompt_column])
                /\ \E v \in PromptVersions \ {oai.prompt_column} : answers[f][v] > 0)
               => \/ f \in ReturnedFileIds
                  \/ /\ oai.limit # NoLimit
                     /\ Len(oai.prompts_data) = oai.limit
                     /\ \A g \in ReturnedFileIds : g < f

\* C19 witness: file 1 is answered for version 1 only and file 2 for version
\* 2; the fetch for version 2 returns file 1 and not file 2.
C19_Witness ==
    /\ Fetched
    /\ oai.prompt_column = "PROMPT_V2_NOR"
    /\ answers[1]["PROMPT_V1_NOR"] = 1 /\ answers[1]["PROMPT_V2_NOR"] = 0
    /\ answers[2]["PROMPT_V2_NOR"] = 1
    /\ HasPrompt(sample[2]["PROMPT_V2_NOR"])
    /\ ReturnedFileIds = {1}

(***************************************************************************)
(* Properties of the response parser                                        *)
(***************************************************************************)
Occurrences(text, tok) == Cardinality({i \in 1..Len(text) : text[i] = tok})

\* The text of the section of a header: what follows its first occurrence up
\* to the next section header or the end, as one line without emphasis marks.
SectionText(text, header) ==
    regex_section(text, header, {Eiendom, PositiveTing, KortVurdering})

\* A section extracted normally: its text cut to the column's length, the
\* placeholder when it has none.
Extracted(section) == truncate(IF section = <<>> THEN <<Placeholder>> ELSE section)

\* The response has the headers 'Eiendom:' and 'Positive ting:' and no
\* header 'Kort vurdering:', and has been parsed.
ParsedWithoutKortVurdering ==
    /\ reply.pc = "parsed"
    /\ Occurrences(reply.response_text, Eiendom) > 0
    /\ Occurrences(reply.response_text, PositiveTing) > 0
    /\ Occurrences(reply.response_text, KortVurdering) = 0

\* C20 as stated: for every response with the headers 'Eiendom:' and
\* 'Positive ting:' and without 'Kort vurdering:', Evaluation is the
\* placeholder and AboutEstate and Positives hold the text of their own
\* sections.
C20_EveryResponse ==
    ParsedWithoutKortVurdering =>
        /\ reply.parsed_response.Evaluation = <<Placeholder>>
        /\ reply.parsed_response.AboutEstate =
               Extracted(SectionText(reply.response_text, Eiendom))
        /\ reply.parsed_response.Positives =
               Extracted(SectionText(reply.response_text, PositiveTing))

\* The two headers occur once each, 'Eiendom:' first, and at least one of the
\* two sections has text.
InOrderWithText ==
    /\ Occurrences(reply.response_text, Eiendom) = 1
    /\ Occurrences(reply.response_text, PositiveTing) = 1
    /\ FirstOf(reply.response_text, {Eiendom}, 1)
           < FirstOf(reply.response_text, {PositiveTing}, 1)
    /\ \/ SectionText(reply.response_text, Eiendom) # <<>>
       \/ SectionText(reply.response_text, PositiveTing) # <<>>

\* C20 as the code has it: for every response in which 'Eiendom:' and
\* 'Positive ting:' occur once each and in this order, without 'Kort
\* vurdering:' and with text in at least one of the two sections, Evaluation
\* is the placeholder and AboutEstate and Positives hold the text of their
\* own sections, the placeholder for a section without text.
C20_InOrderResponse ==
    (ParsedWithoutKortVurdering /\ InOrderWithText) =>
        /\ reply.parsed_response.Evaluation = <<Placeholder>>
        /\ reply.parsed_response.AboutEstate =
               Extracted(SectionText(reply.response_text, Eiendom))
        /\ reply.parsed_response.Positives =
               Extracted(SectionText(reply.response_text, PositiveTing))

\* C20 witness: 'Eiendom: **tett** Positive ting: **tett** Konklusjon:' has
\* been parsed into 'tett', 'tett Konklusjon:' and the placeholder.
C20_Witness ==
    /\ reply.pc = "parsed"
    /\ reply.response_text = <<Eiendom, BoldWord, PositiveTing, BoldWord, Konklusjon>>
    /\ reply.parsed_response.AboutEstate = <<"tett">>
    /\ reply.parsed_response.Positives = <<"tett", Konklusjon>>
    /\ reply.parsed_response.Evaluation = <<Placeholder>>

(***************************************************************************)
(* The text cleaner                                                        *)
(***************************************************************************)
TooShortToClean(text) ==
    text = NullText \/ CharCount(strip_text(text)) < min_text_length

CleansToTooLittle(text, aggressive_cleaning) ==
    /\ ~TooShortToClean(text)
    /\ CharCount(strip_text(cleaned_text_of(text, aggressive_cleaning))) < min_cleaned_length

\* C21: an extracted text of fewer than 10 characters, and one whose cleaned
\* text has fewer than 5, makes the cleaning return failure with no row
\* written to the cleaned-text table, in the single-process and in the
\* multiprocess mode alike.
C21_ShortTextNotSaved ==
    (/\ cln.pc = "returned"
     /\ \/ TooShortToClean(cln.record.extracted_text)
        \/ CleansToTooLittle(cln.record.extracted_text, cln.aggressive_cleaning))
    => (~cln.success /\ clean_rows = <<>>)

\* C21 witness: a worker of the pool returned failure for a text of ten
\* characters or more whose cleaned text has fewer than five.
C21_Witness ==
    /\ cln.pc = "returned"
    /\ cln.multiprocess
    /\ CleansToTooLittle(cln.record.extracted_text, cln.aggressive_cleaning)
    /\ ~cln.success
    /\ clean_rows = <<>>

(***************************************************************************)
(* The text extraction                                                     *)
(***************************************************************************)
\* The row the last extraction attempt wrote.
LastExtractRow == extract_rows[Len(extract_rows)]

\* C22: the row logged for an extraction attempt carries the status label of
\* the attempt's own outcome class, and a low-content result is logged with
\* its extracted text and not as a failure.
C22_RowCarriesOutcome ==
    (ext.pc = "returned" /\ ext.logged)
    => /\ LastExtractRow.extraction_status = ext.status
       /\ ext.status = "SUCCESS_LOW_CONTENT"
            => /\ LastExtractRow.extracted_text = ext.text
               /\ LastExtractRow.extraction_status # "FAILED"

(***************************************************************************)
(* The yearly CSV download                                                 *)
(***************************************************************************)
\* A step of download_year_data for a year whose file is there.
ExistingYearStep ==
    /\ fd.pc = "running"
    /\ fd'.i = fd.i + 1
    /\ csv_files[fd.years[fd.i]] > 0

\* The metadata endpoint answered 200 and named a file URL.
MetadataAnswered == fd'.status = 200 /\ fd'.has_url

\* C23, as the specification states it: download_year_data for a year whose
\* file exists, called without force, never requests the file URL, never
\* rewrites the file, and returns success with downloaded = false and the
\* size of the file; with force it requests the file URL again.
C23_ExistingFileAlwaysReported ==
    [][ExistingYearStep =>
          IF fd.force THEN fd'.file_requests = 1
          ELSE /\ fd'.file_requests = 0
               /\ csv_files' = csv_files
               /\ fd'.result = [NoYearResult EXCEPT
                                   !.success = TRUE,
                                   !.file_size = csv_files[fd.years[fd.i]]]]_vars

\* C23, amended: without force the file URL is never requested and the file
\* never rewritten; the call returns success with downloaded = false and the
\* size of the file when the metadata endpoint answered with a file URL, and
\* failure otherwise; with force and the metadata answered, the file URL is
\* requested again.
C23_ExistingFileKept ==
    [][ExistingYearStep =>
          IF fd.force THEN (MetadataAnswered => fd'.file_requests = 1)
          ELSE /\ fd'.file_requests = 0
               /\ csv_files' = csv_files
               /\ IF MetadataAnswered
                  THEN fd'.result = [NoYearResult EXCEPT
                                        !.success = TRUE,
                                        !.file_size = csv_files[fd.years[fd.i]]]
                  ELSE ~fd'.result.success]_vars

\* C23 witness: in a second command without force, a year whose file the
\* first command wrote is reported as existing, with no request of the file.
C23_Witness ==
    /\ fd.commands = 2
    /\ fd.i > 1
    /\ ~fd.force
    /\ fd.result.success
    /\ ~fd.result.downloaded
    /\ fd.result.file_size = csv_files[fd.years[fd.i - 1]]
    /\ fd.result.file_size > 0
    /\ fd.file_requests = 0

\* C24: a 404 of the metadata endpoint gives the outcome of its own, 'No data
\* available for year' with status code 404, and a command in which every
\* other year succeeded does not fail.
C24_NoDataIsNoFailure ==
    /\ (fd.pc = "running" /\ fd.i > 1 /\ fd.status = 404)
         => (fd.result.error = "No data available for year" /\ fd.result.status_code = 404)
    /\ (fd.pc = "done" /\ fd.saw_404 /\ ~fd.other_failure) => fd.exit_code = 0

(***************************************************************************)
(* The subcommands                                                         *)
(***************************************************************************)
\* C25: when the database cannot be reached, a database-backed subcommand
\* exits with a non-zero code and does not report the run as successful.
C25_UnreachableDatabaseFails ==
    (cli.pc = "exited" /\ ~cli.db) => (cli.exit_code # 0 /\ ~cli.reported_success)

(***************************************************************************)
(* The orchestration script                                                *)
(***************************************************************************)
\* C26: one run of the orchestration script runs every component of the
\* pipeline exactly once, in data-flow order, and a failing stage does not
\* keep the later stages from being run: when the script is done, the
\* components run are the eight components in order, one step result each
\* whatever the stages answered.
C26_EveryComponentOnce ==
    pipe.pc = "done" => pipe.invoked = PipelineComponents

(***************************************************************************)
(* Two concurrent import runs                                              *)
(***************************************************************************)
\* The rows a finished run committed.
CommittedBy(p) ==
    IF imp[p].result.kind = "insert" THEN imp[p].df_to_insert ELSE <<>>

BothRunsDone == \A p \in Runs : imp[p].pc = "done"

\* C27: nothing guards the insert against the other run.  When two concurrent
\* runs are over, the staging table holds every row either run's existence
\* check let through, also those whose certificate number the other run
\* inserted between the check and the insert; a number both files share and
\* both checks found absent therefore has two rows.
C27_RaceUnguarded ==
    BothRunsDone =>
        \A k \in KeyVals : store[k] = Count(CommittedBy(1), k) + Count(CommittedBy(2), k)

\* C27 witness: both runs had A1 once in their file, both existence checks
\* answered without error that it is absent, both inserted it: two rows.
C27_Witness ==
    /\ BothRunsDone
    /\ \A p \in Runs : /\ imp[p].skip_duplicates
                       /\ ~imp[p].check_error
                       /\ imp[p].skipped_count = 0
                       /\ Count(imp[p].df, "A1") = 1
                       /\ imp[p].inserted_rows = Len(imp[p].df)
    /\ store["A1"] = 2

(***************************************************************************)
(* Resume of the LLM stage                                                 *)
(***************************************************************************)
\* C28: a prompt without an answer row comes back in the next fetch, so
\* repeated runs in the end answer every prompt whose call keeps succeeding.
C28_EveryGoodPromptAnswered ==
    \A f \in FileIds :
        (sample[f][ResumeVersion] = GoodPrompt) ~> (answers[f][ResumeVersion] > 0)

(***************************************************************************)
(* The summary of process_prompts                                          *)
(***************************************************************************)
\* process_prompts is about to return the summary of a run that had prompts.
SummaryReturned == oai.pc = "done" /\ oai.success /\ oai.total_prompts > 0

\* C29: the summary every call of process_prompts returns, the second and
\* later calls on the same instance included, satisfies
\* prompts_processed + errors = total_prompts of that call.
C29_SummaryAddsUp ==
    SummaryReturned => oai.processed_count + oai.error_count = oai.total_prompts

(***************************************************************************)
(* Terminal rows of the detail-lookup log                                  *)
(***************************************************************************)
Terminal(row) == row.status_message # Pending

TerminalRows(lg) == SelectSeq(lg, Terminal)

\* s is t with some rows left out.
RECURSIVE IsSubseq(_, _)
IsSubseq(s, t) ==
    IF s = <<>> THEN TRUE
    ELSE IF t = <<>> THEN FALSE
    ELSE IF Head(s) = Head(t) THEN IsSubseq(Tail(s), Tail(t))
    ELSE IsSubseq(s, Tail(t))

\* The status messages process_certificates passes to update_api_log.
UpdateStatuses ==
    {Outcome(api_data, saved, saveRaised).status_message :
        api_data \in {TOO_MANY_RESULTS, None} \cup {Data(n) : n \in 1..MaxRecords},
        saved \in 0..MaxRecords, saveRaised \in BOOLEAN}

\* update_api_log, whatever its arguments, leaves the rows of the log in
\* place and changes none that is terminal or of another certificate.
UpdateTouchesPendingOnly ==
    \A certificate_id \in Certs, records_returned \in 0..MaxRecords,
       status_message \in UpdateStatuses :
        LET updated == update_api_log(log, certificate_id, records_returned,
                                      status_message)
        IN  /\ Len(updated) = Len(log)
            /\ \A i \in 1..Len(log) :
                  (Terminal(log[i]) \/ log[i].CertificateID # certificate_id)
                      => updated[i] = log[i]

\* cleanup_old_pending_records, whatever the window, keeps in their order
\* all rows that are terminal or not older than the window, and adds none.
CleanupDeletesOldPendingOnly ==
    \A hours_old \in Windows :
        LET left == cleanup_old_pending_records(log, hours_old, clock)
            Stays(row) == Terminal(row) \/ row.LogDate >= clock - hours_old
        IN  /\ IsSubseq(left, log)
            /\ SelectSeq(left, Stays) = SelectSeq(log, Stays)
            /\ TerminalRows(left) = TerminalRows(log)

\* The same of the log after a save that stored rows: a row with the status
\* Success meets both operations.
UpdatedRowsStay ==
    \A certificate_id \in Certs, records_returned \in 1..MaxRecords :
        LET updated == update_api_log(log, certificate_id, records_returned, "Success")
        IN  /\ \A hours_old \in Windows :
                  TerminalRows(cleanup_old_pending_records(updated, hours_old, clock))
                      = TerminalRows(updated)
            /\ \A other \in Certs, later \in UpdateStatuses :
                  LET again == update_api_log(updated, other, 0, later)
                  IN  \A i \in 1..Len(updated) :
                          Terminal(updated[i]) => again[i] = updated[i]

\* C30: a log row whose status is terminal is never modified by
\* update_api_log and never deleted by cleanup_old_pending_records, in any
\* run and for any window: both act on Pending rows only, the cleanup on
\* Pending rows older than the window only.  In every state the two
\* operations have this effect on the log as it stands, and every step of
\* the client keeps the terminal rows, unchanged and in their order.
C30_TerminalRowsImmutable ==
    /\ [](UpdateTouchesPendingOnly /\ CleanupDeletesOldPendingOnly /\ UpdatedRowsStay)
    /\ [][IsSubseq(TerminalRows(log), TerminalRows(log'))]_vars

\* Witness of C30: the second run for a certificate has updated its own
\* Pending row while the terminal row of the first run, older than the
\* window of the cleanup the second run began with, is still as it was.
C30_Witness ==
    /\ Len(log) = 2
    /\ log[1].CertificateID = log[2].CertificateID
    /\ Terminal(log[1]) /\ Terminal(log[2])
    /\ log[1].status_message # log[2].status_message
    /\ log[2].LogDate = api.batch_datetime
    /\ log[1].LogDate < api.batch_datetime - startup_hours_old

====
